---- MODULE Spec2Model ----
(***************************************************************************)
(* A model of the satellite analysis server: the windowed threat detectors *)
(* (satellite/analysis/threat_detector.py), the analysis coordinator       *)
(* (satellite/analysis/processors.py), the image optimizer                 *)
(* (satellite/analysis/image_optimizer.py) and the Celery tasks, signals,  *)
(* view and admin actions that enqueue them.                               *)
(*                                                                         *)
(* Geographic coordinates are integers in thousandths of a degree; pixel   *)
(* coordinates are whole pixels (a centroid's fractional part is dropped,  *)
(* which changes neither its int() pixel coordinate nor its bucket).       *)
(***************************************************************************)
EXTENDS Integers, Sequences, FiniteSets, Bags, TLC

VARIABLES
    cleanup,    \* the running cleanup_old_analyses task: its position and locals
    raster,     \* metadata of the raster file behind the image's optimized_image
    analysis,   \* the AnalysisResult row in the database
    image,      \* the SatelliteImage row in the database
    threats,    \* the ThreatDetection rows stored for the analysis
    alog,       \* the AnalysisLog rows of the analysis (a bag of rows)
    proc,       \* per task execution: AnalysisProcessor.process() state
    det,        \* the ThreatDetector of the detailed run and its current detector call
    pylog,      \* events the current detector call wrote to the Python logger
    queue,      \* run_satellite_analysis messages waiting in the broker
    task,       \* per task slot: the state of a run_satellite_analysis execution
    web,        \* what the view / admin requests have done so far
    optq,       \* optimize_satellite_image messages waiting in the broker
    opt,        \* per task slot: the state of an optimize_satellite_image execution
    cog,        \* the COG file on disk at the image's cog_path
    vcall,      \* a call of ThreatDetector._validate_coordinates and its result
    gcall       \* a call of ThreatDetector._pixel_to_geo and its result

vars == <<raster, analysis, image, threats, alog, proc, det, pylog,
          queue, task, web, optq, opt, cog, vcall, gcall, cleanup>>

detVars  == <<det, pylog>>
taskVars == <<queue, task, web>>
optVars  == <<optq, opt, cog>>

-----------------------------------------------------------------------------
(* Program constants *)

CHUNK_SIZE == 2048
OVERLAP == 256
FIRE_BUCKET == 100
DAMAGE_BUCKET == 500
VEHICLE_BUCKET == 500
DAMAGE_STRIDE == 2048
VEHICLE_STRIDE == 1024
SAMPLE_SIZE == 512
MIN_FIRE_AREA == 100
CLUSTER_DISTANCE == 200
MIN_CLUSTER == 5
CUTOFF_DAYS == 90
ANALYSIS_MAX_RETRIES == 2
OPTIMIZE_MAX_RETRIES == 3
COG_WINDOW == 1024

(* Bounds of the model *)

MaxRegions == 2     \* labelled regions per fire tile
MaxBlobs == 2       \* blob groups per vehicle sample
MaxTriggers == 1    \* uses of the trigger_optimization admin action
MaxRows == 2        \* records in the table cleanup_old_analyses runs over
MaxFaults == 1      \* exceptions raised by the database or the raster in process()
MaxBands == 4       \* bands of an uploaded raster

-----------------------------------------------------------------------------
(* Helpers *)

Min(a, b) == IF a < b THEN a ELSE b

\* Python's range(0, stop, step) as a sequence
PyRange(stop, step) ==
    LET n == IF stop <= 0 THEN 0 ELSE (stop + step - 1) \div step
    IN  [i \in 1..n |-> (i - 1) * step]

\* the row-major nest "for y in ys: for x in xs", as <<x, y>> pairs
RowMajor(xs, ys) ==
    [k \in 1..(Len(xs) * Len(ys)) |->
        <<xs[((k - 1) % Len(xs)) + 1], ys[((k - 1) \div Len(xs)) + 1]>>]

SeqsUpTo(S, n) == UNION {[1..k -> S] : k \in 0..n}

Range(s) == {s[i] : i \in DOMAIN s}

-----------------------------------------------------------------------------
(* The rasters the model opens.  crs EPSG:4326 is already geographic; a    *)
(* raster in EPSG:32632 (projected, metres) has to be reprojected.         *)

Rasters ==
    [width : {5120}, height : {2048}, count : {1, 3}, crs : {"EPSG:4326", "EPSG:32632"}]
    \cup
    [width : {2500}, height : {600}, count : {3}, crs : {"EPSG:4326", "EPSG:32632"}]

\* dataset.transform * (x, y): pixel to the raster's own CRS
AffineTransform(r, x, y) ==
    IF r.crs = "EPSG:4326"
    THEN <<10000 + x, 50000 - y>>
    ELSE <<500000 + 100 * x, 5500000 - 100 * y>>

\* rasterio.warp.transform(crs, "EPSG:4326", ...): the projected CRS to WGS84
WarpTransform(sx, sy) == <<9000 + ((sx - 500000) \div 100), ((sy - 500000) \div 100)>>

\* dataset.bounds as [left, bottom, right, top] in the raster's CRS
DatasetBounds(r) ==
    LET ul == AffineTransform(r, 0, 0)
        lr == AffineTransform(r, r.width, r.height)
    IN  [left |-> ul[1], bottom |-> lr[2], right |-> lr[1], top |-> ul[2]]

\* rasterio.warp.transform_bounds(crs, "EPSG:4326", left, bottom, right, top)
TransformBounds(b) ==
    LET lo == WarpTransform(b.left, b.bottom)
        hi == WarpTransform(b.right, b.top)
    IN  [left |-> lo[1], bottom |-> lo[2], right |-> hi[1], top |-> hi[2]]

\* ThreatDetector._pixel_to_geo: <<lon, lat>>; warpFails is whether the
\* reprojection raises, in which case the raw transform result is returned
PixelToGeo(r, x, y, warpFails) ==
    LET src == AffineTransform(r, x, y)
    IN  IF r.crs # "EPSG:4326" /\ ~warpFails
        THEN WarpTransform(src[1], src[2])
        ELSE src

\* faulty variant: the bounding box is not widened
ValidateCoordinates_NoTolerance(r, lon, lat, boundsRaise) ==
    IF ~(-180000 <= lon /\ lon <= 180000 /\ -90000 <= lat /\ lat <= 90000)
    THEN FALSE
    ELSE IF boundsRaise THEN FALSE
    ELSE LET b == IF r.crs # "EPSG:4326"
                  THEN TransformBounds(DatasetBounds(r))
                  ELSE DatasetBounds(r)
         IN  /\ b.left <= lon /\ lon <= b.right
             /\ b.bottom <= lat /\ lat <= b.top

\* ThreatDetector._validate_coordinates; boundsRaise is whether reading or
\* transforming the bounds raises (caught: the point is then invalid)
ValidateCoordinates(r, lon, lat, boundsRaise) ==
    IF ~(-180000 <= lon /\ lon <= 180000 /\ -90000 <= lat /\ lat <= 90000)
    THEN FALSE
    ELSE IF boundsRaise THEN FALSE
    ELSE LET b == IF r.crs # "EPSG:4326"
                  THEN TransformBounds(DatasetBounds(r))
                  ELSE DatasetBounds(r)
             lon_range == b.right - b.left
             lat_range == b.top - b.bottom
         IN  \* tolerance = 0.1, both sides of each comparison scaled by 10
             /\ 10 * b.left - lon_range <= 10 * lon
             /\ 10 * lon <= 10 * b.right + lon_range
             /\ 10 * b.bottom - lat_range <= 10 * lat
             /\ 10 * lat <= 10 * b.top + lat_range

\* cleanup_old_analyses is not running
IdleCleanup == [pc |-> "idle", now |-> 0, cutoff |-> 0, count |-> 0,
                raised |-> FALSE, result |-> "none", cleaned |-> 0]

\* no call of _validate_coordinates is followed
NoCall == [pc |-> "none", lon |-> 0, lat |-> 0, env |-> "ok", result |-> FALSE]

\* lines 89-153 as one step: the call returns
ValidateReturn ==
    /\ vcall.pc = "called"
    /\ vcall' = [vcall EXCEPT !.pc = "returned",
                              !.result = ValidateCoordinates(raster, vcall.lon, vcall.lat,
                                                             vcall.env = "bounds_raise")]
    /\ UNCHANGED <<cleanup, raster, analysis, image, threats, alog, proc, det, pylog,
                   queue, task, web, optq, opt, cog, gcall>>

\* region_key = (int(x // bucket), int(y // bucket))
RegionKey(x, y, bucket) == <<x \div bucket, y \div bucket>>

-----------------------------------------------------------------------------
(* Records *)

Workers == {1, 2}       \* Celery worker slots
AnalysisIds == {1}      \* primary keys of AnalysisResult rows

\* a detection dictionary: pixel_coords, location and the size the detector
\* reports (area_pixels, or vehicle_count)
Detection(type, x, y, geo, size) ==
    [threat_type |-> type, x |-> x, y |-> y, lon |-> geo[1], lat |-> geo[2],
     size |-> size]

\* ThreatDetector.__init__, and no detector call yet.  visited (the tile
\* origins of the call so far), last (what happened to the last tile) and
\* dropped (the pixel centroids skipped as already processed) record the
\* history of the current call
NewDetector ==
    [open |-> FALSE, processed_regions |-> {}, name |-> "none", pc |-> "idle",
     tile |-> 1, visited |-> <<>>, last |-> "none", detections |-> <<>>,
     locals |-> {}, keypoints |-> <<>>, sample_count |-> 0, dropped |-> {}]

\* the local state of a detector call at its first statement
BeginCall(d, name) ==
    [d EXCEPT !.name = name, !.pc = "scan", !.tile = 1, !.visited = <<>>,
              !.last = "none", !.detections = <<>>, !.locals = {},
              !.keypoints = <<>>, !.sample_count = 0, !.dropped = {}]

\* the events that report an exception caught inside a detector
FailureEvents == {"fire_window", "fire", "damage_sample", "vehicle_sample", "vehicle_cluster"}

LogEvent(level, what, where) == [level |-> level, what |-> what]

\* no call of _pixel_to_geo is followed
NoGeoCall == [pc |-> "none", x |-> 0, y |-> 0, env |-> "ok", result |-> <<>>]

\* lines 56-87 as one step: the call returns the tuple (lon, lat); when the
\* reprojection raises, the handler logs an error and returns the raw
\* transform result
PixelToGeoReturn ==
    /\ gcall.pc = "called"
    /\ gcall' = [gcall EXCEPT !.pc = "returned",
                              !.result = PixelToGeo(raster, gcall.x, gcall.y,
                                                    gcall.env = "warp_raises")]
    /\ pylog' = pylog \cup
            (IF raster.crs # "EPSG:4326" /\ gcall.env = "warp_raises"
             THEN {LogEvent("error", "pixel_to_geo", <<gcall.x, gcall.y>>)} ELSE {})
    /\ UNCHANGED <<cleanup, raster, analysis, image, threats, alog, proc, det,
                   queue, task, web, optq, opt, cog, vcall>>

-----------------------------------------------------------------------------
(* detect_fires_explosions *)

FireTiles(r) == RowMajor(PyRange(r.width, CHUNK_SIZE), PyRange(r.height, CHUNK_SIZE))

\* faulty variant: the window is not clipped to the raster
FireWindow_Unclipped(r, o) ==
    [x |-> o[1], y |-> o[2], w |-> CHUNK_SIZE + OVERLAP, h |-> CHUNK_SIZE + OVERLAP]

\* the window read at tile origin o: Window(x_start, y_start, x_end - x_start,
\* y_end - y_start)
FireWindow(r, o) ==
    [x |-> o[1], y |-> o[2],
     w |-> Min(o[1] + CHUNK_SIZE + OVERLAP, r.width) - o[1],
     h |-> Min(o[2] + CHUNK_SIZE + OVERLAP, r.height) - o[2]]

\* what may happen to one tile
FireOutcomes ==
    {"read1_raises", "read2_raises", "read3_raises", "all_zero", "normalize_raises", "ok"}

\* what may happen while one candidate is handled
CandEnvs == {"ok", "warp_raises", "bounds_raise", "build_raises"}

\* labelled regions a tile may hold: window-relative centroid, area, environment
FireCands(win) ==
    {c \in ([cx : {52, 2100}, cy : {60}, area : {150}, env : CandEnvs]
            \cup [cx : {52}, cy : {60}, area : {80}, env : {"ok"}]) :
        c.cx < win.w /\ c.cy < win.h}

\* faulty variant: no outer handler: the exception leaves the detector
OuterExcept_Reraise(d) == [d EXCEPT !.pc = "raised"]

\* the outer "except Exception" of a detector: log the error, fall through to
\* "return detections"
OuterExcept(d) == [d EXCEPT !.pc = "end"]

\* faulty variant: the validation result is ignored
FireVerdict_NoValidate(r, c, gx, gy, seen) ==
    IF ~(c.area > MIN_FIRE_AREA) THEN "small"
    ELSE IF RegionKey(gx, gy, FIRE_BUCKET) \in seen THEN "duplicate"
    ELSE IF c.env = "build_raises" THEN "raise"
    ELSE "emit"

\* faulty variant: the processed_regions test is missing
FireVerdict_NoDedup(r, c, gx, gy, seen) ==
    LET geo == PixelToGeo(r, gx, gy, c.env = "warp_raises")
    IN  IF ~(c.area > MIN_FIRE_AREA) THEN "small"
        ELSE IF ~ValidateCoordinates(r, geo[1], geo[2], c.env = "bounds_raise")
             THEN "invalid"
        ELSE IF c.env = "build_raises" THEN "raise"
        ELSE "emit"

\* lines 216-239: what the fire loop does with one region
FireVerdict(r, c, gx, gy, seen) ==
    LET geo == PixelToGeo(r, gx, gy, c.env = "warp_raises")
    IN  IF ~(c.area > MIN_FIRE_AREA) THEN "small"
        ELSE IF RegionKey(gx, gy, FIRE_BUCKET) \in seen THEN "duplicate"
        ELSE IF ~ValidateCoordinates(r, geo[1], geo[2], c.env = "bounds_raise")
             THEN "invalid"
        ELSE IF c.env = "build_raises" THEN "raise"
        ELSE "emit"

\* faulty variant: a candidate that fails validation records its key
FireRegion_KeyOnInvalid(r, o, c, st) ==
    LET gx == o[1] + c.cx
        gy == o[2] + c.cy
        key == RegionKey(gx, gy, FIRE_BUCKET)
        geo == PixelToGeo(r, gx, gy, c.env = "warp_raises")
        v == FireVerdict(r, c, gx, gy, st.seen)
    IN  CASE v = "small" -> st
          [] v = "duplicate" -> [st EXCEPT !.dropped = @ \cup {<<gx, gy>>}]
          [] v = "invalid" ->
                [st EXCEPT !.seen = @ \cup {key},
                           !.log = @ \cup {LogEvent("warning", "fire_invalid", o)}]
          [] v = "raise" ->
                [st EXCEPT !.seen = @ \cup {key}, !.raised = TRUE]
          [] OTHER ->
                [st EXCEPT !.seen = @ \cup {key},
                           !.dets = Append(@, Detection("fire", gx, gy, geo, c.area))]

\* one iteration of "for region in regions" on st = [dets, seen, log, raised]
FireRegion(r, o, c, st) ==
    LET gx == o[1] + c.cx
        gy == o[2] + c.cy
        key == RegionKey(gx, gy, FIRE_BUCKET)
        geo == PixelToGeo(r, gx, gy, c.env = "warp_raises")
        v == FireVerdict(r, c, gx, gy, st.seen)
    IN  CASE v = "small" -> st
          [] v = "duplicate" -> [st EXCEPT !.dropped = @ \cup {<<gx, gy>>}]
          [] v = "invalid" ->
                [st EXCEPT !.log = @ \cup {LogEvent("warning", "fire_invalid", o)}]
          [] v = "raise" ->
                [st EXCEPT !.seen = @ \cup {key}, !.raised = TRUE]
          [] OTHER ->
                [st EXCEPT !.seen = @ \cup {key},
                           !.dets = Append(@, Detection("fire", gx, gy, geo, c.area))]

RECURSIVE FireRegions(_, _, _, _)
FireRegions(r, o, regions, st) ==
    IF regions = <<>> \/ st.raised THEN st
    ELSE FireRegions(r, o, Tail(regions), FireRegion(r, o, Head(regions), st))

\* the locals bound once the three band reads have run
FireBound(locals, outcome) ==
    CASE outcome = "read1_raises" -> locals
      [] outcome = "read2_raises" -> locals \cup {"red"}
      [] outcome = "read3_raises" -> locals \cup {"red", "green"}
      [] OTHER -> locals \cup {"red", "green", "blue"}

\* "finally: del red, green, blue": [ok, locals]; deleting an unbound local
\* raises UnboundLocalError after the names before it were deleted
DelBands(bound) ==
    IF "red" \notin bound THEN [ok |-> FALSE, locals |-> bound]
    ELSE IF "green" \notin bound THEN [ok |-> FALSE, locals |-> bound \ {"red"}]
    ELSE IF "blue" \notin bound THEN [ok |-> FALSE, locals |-> bound \ {"red", "green"}]
    ELSE [ok |-> TRUE, locals |-> bound \ {"red", "green", "blue"}]

-----------------------------------------------------------------------------
(* AnalysisProcessor.process: the frame around the detectors *)

\* the worker slot whose detectors are followed tile by tile
DetailRun == CHOOSE w \in Workers : \A v \in Workers : w <= v

AnalysisTypes ==
    {"threat_detection", "change_detection", "object_recognition", "terrain_analysis"}

\* created_at: the hour the record was created in
NoRow == [exists |-> FALSE, type |-> "none", status |-> "none", created_at |-> 0,
          started_at |-> FALSE, completed_at |-> FALSE,
          error_message |-> "", threat_count |-> 0, confidence_score |-> 0]

\* AnalysisResult.objects.create(..., status='pending')
NewRow(type) == [NoRow EXCEPT !.exists = TRUE, !.type = type, !.status = "pending"]

\* calls records, per detector call of the run so far, its name and whether
\* it logged a failure (a warning or an error)
IdleProc == [pc |-> "idle", aid |-> 0, inst |-> NoRow, open |-> FALSE,
             all_detections |-> <<>>, calls |-> <<>>,
             img |-> [analyzed |-> FALSE, analysis_count |-> 0]]

AppendLog(log, a, level, msg) ==
    [log EXCEPT ![a] = @ (+) SetToBag({[level |-> level, message |-> msg]})]

\* lines 34-37: status = "processing", save(update_fields=["status", "started_at"])
ProcessStart(w) ==
    /\ proc[w].pc = "start"
    /\ proc' = [proc EXCEPT ![w].inst.status = "processing",
                            ![w].inst.started_at = TRUE,
                            ![w].all_detections = <<>>,
                            ![w].calls = <<>>,
                            ![w].pc = "logstart"]
    /\ analysis' = [analysis EXCEPT ![proc[w].aid].status = "processing",
                                    ![proc[w].aid].started_at = TRUE]
    /\ UNCHANGED <<raster, vcall, gcall, cleanup, image, threats, alog, detVars, taskVars, optVars>>

\* line 39
LogStart(w) ==
    /\ proc[w].pc = "logstart"
    /\ alog' = AppendLog(alog, proc[w].aid, "info", "Analysis started")
    /\ proc' = [proc EXCEPT ![w].pc = "open"]
    /\ UNCHANGED <<raster, vcall, gcall, cleanup, analysis, image, threats, detVars, taskVars, optVars>>

\* faulty variant: an unknown analysis type is an error
Dispatch_UnknownFails(type) ==
    CASE type = "threat_detection" -> "log_fire"
      [] type = "object_recognition" -> "log_vehicle"
      [] OTHER -> "except"

\* lines 44-68: where the analysis type sends the run once the raster is open
Dispatch(type) ==
    CASE type = "threat_detection" -> "log_fire"
      [] type = "object_recognition" -> "log_vehicle"
      [] OTHER -> "log_unknown"

\* line 44: ThreatDetector(self.image_path).__enter__()
EnterDetector(w) ==
    /\ proc[w].pc = "open"
    /\ proc' = [proc EXCEPT ![w].open = TRUE, ![w].pc = Dispatch(proc[w].inst.type)]
    /\ det' = IF w = DetailRun THEN NewDetector ELSE det
    /\ UNCHANGED <<raster, vcall, gcall, cleanup, analysis, image, threats, alog, pylog, taskVars, optVars>>

LogMessage(pc) ==
    CASE pc = "log_fire" -> "Running fire and explosion detection"
      [] pc = "log_damage" -> "Running structural damage detection"
      [] pc = "log_vehicle" -> "Running vehicle concentration detection"
      [] OTHER -> "Unknown analysis type"

AfterLog(pc) ==
    CASE pc = "log_fire" -> "fire"
      [] pc = "log_damage" -> "damage"
      [] pc = "log_vehicle" -> "vehicle"
      [] OTHER -> "close"

\* lines 47, 51, 55, 60, 65: the log entry ahead of a detector (or the warning)
LogDetector(w) ==
    /\ proc[w].pc \in {"log_fire", "log_damage", "log_vehicle", "log_unknown"}
    /\ alog' = AppendLog(alog, proc[w].aid,
                         IF proc[w].pc = "log_unknown" THEN "warning" ELSE "info",
                         LogMessage(proc[w].pc))
    /\ proc' = [proc EXCEPT ![w].pc = AfterLog(proc[w].pc)]
    /\ UNCHANGED <<raster, vcall, gcall, cleanup, analysis, image, threats, detVars, taskVars, optVars>>

\* faulty variant: the damage detector comes last
AfterDetector_DamageLast(type, name) ==
    IF type = "threat_detection" /\ name = "fire" THEN "log_vehicle"
    ELSE IF type = "threat_detection" /\ name = "vehicle" THEN "log_damage"
    ELSE "close"

\* where process() goes after a detector returned
AfterDetector(type, name) ==
    IF type = "threat_detection" /\ name = "fire" THEN "log_damage"
    ELSE IF type = "threat_detection" /\ name = "damage" THEN "log_vehicle"
    ELSE "close"

\* faulty variant: the returned list replaces all_detections
TakeResult_Overwrite(p, name, returned, dets, failures) ==
    [p EXCEPT !.all_detections = dets,
              !.calls = Append(@, [name |-> name, failures |-> failures]),
              !.pc = AfterDetector(p.inst.type, name)]

\* what process() does with the outcome of a detector call: the returned list
\* extends all_detections; an exception leaves the with-block for the handler
TakeResult(p, name, returned, dets, failures) ==
    LET call == [name |-> name, failures |-> failures]
    IN  IF returned
        THEN [p EXCEPT !.all_detections = @ \o dets,
                       !.calls = Append(@, call),
                       !.pc = AfterDetector(p.inst.type, name)]
        ELSE [p EXCEPT !.calls = Append(@, call), !.open = FALSE, !.pc = "except"]

\* the end of the with-block: ThreatDetector.__exit__
ExitDetector(w) ==
    /\ proc[w].pc = "close"
    /\ proc' = [proc EXCEPT ![w].open = FALSE, ![w].pc = "store"]
    /\ UNCHANGED <<raster, vcall, gcall, cleanup, analysis, image, threats, alog, detVars, taskVars, optVars>>

\* lines 70-99: build the ThreatDetection objects and bulk_create them
StoreDetections(w) ==
    /\ proc[w].pc = "store"
    /\ LET n == Len(proc[w].all_detections)
           a == proc[w].aid
       IN  /\ threats' = [threats EXCEPT ![a] = @ + n]
           /\ alog' = IF n > 0
                      THEN AppendLog(alog, a, "info", "Created threat detections")
                      ELSE alog
    /\ proc' = [proc EXCEPT ![w].pc = "complete"]
    /\ UNCHANGED <<raster, vcall, gcall, cleanup, analysis, image, detVars, taskVars, optVars>>

\* the "confidence" of a detection, in hundredths: min(0.6 + count / 50, 0.9)
\* for a convoy; for a fire and for damage the value for an average fire
\* index of 0.5 and for an edge density of 0.4
Confidence(d) ==
    CASE d.threat_type = "vehicle_convoy" -> Min(60 + 2 * d.size, 90)
      [] d.threat_type = "fire" -> Min(60 + 20, 99)
      [] OTHER -> Min(60 + 14, 95)

RECURSIVE SumConfidence(_)
SumConfidence(dets) ==
    IF dets = <<>> THEN 0 ELSE Confidence(Head(dets)) + SumConfidence(Tail(dets))

\* lines 105-110
AvgConfidence(dets) ==
    IF dets # <<>> THEN SumConfidence(dets) \div Len(dets) ELSE 0

\* lines 101-120: the completed record, saved in full
CompleteSave(w) ==
    /\ proc[w].pc = "complete"
    /\ LET done == [proc[w].inst EXCEPT !.status = "completed",
                                        !.completed_at = TRUE,
                                        !.confidence_score = AvgConfidence(proc[w].all_detections),
                                        !.threat_count = Len(proc[w].all_detections)]
       IN  /\ proc' = [proc EXCEPT ![w].inst = done, ![w].pc = "image"]
           /\ analysis' = [analysis EXCEPT ![proc[w].aid] = done]
    /\ UNCHANGED <<raster, vcall, gcall, cleanup, image, threats, alog, detVars, taskVars, optVars>>

\* lines 122-125: analyzed and analysis_count of the in-memory image,
\* save(update_fields=["analyzed", "analysis_count"])
ImageSave(w) ==
    /\ proc[w].pc = "image"
    /\ LET n == proc[w].img.analysis_count + 1
       IN  /\ proc' = [proc EXCEPT ![w].img = [analyzed |-> TRUE, analysis_count |-> n],
                                   ![w].pc = "logdone"]
           /\ image' = [image EXCEPT !.analyzed = TRUE, !.analysis_count = n]
    /\ UNCHANGED <<raster, vcall, gcall, cleanup, analysis, threats, alog, detVars, taskVars, optVars>>

\* lines 127-132
LogDone(w) ==
    /\ proc[w].pc = "logdone"
    /\ alog' = AppendLog(alog, proc[w].aid, "info", "Analysis completed successfully")
    /\ proc' = [proc EXCEPT ![w].pc = "returned_true"]
    /\ UNCHANGED <<raster, vcall, gcall, cleanup, analysis, image, threats, detVars, taskVars, optVars>>

\* the statements of the try block that may raise: the database writes
\* (those of _log inside the with-block included) and the opening of the raster
RaisePoints == {"start", "logstart", "open", "log_fire", "log_damage", "log_vehicle", "log_unknown",
                "store", "complete", "image", "logdone"}

\* faulty variant: an exception leaves the with-block without __exit__
ProcessRaise_NoExit(w) ==
    /\ web.faults < MaxFaults
    /\ proc[w].pc \in RaisePoints
    /\ proc' = [proc EXCEPT ![w].pc = "except"]
    /\ web' = [web EXCEPT !.faults = @ + 1]
    /\ UNCHANGED <<raster, vcall, gcall, cleanup, analysis, image, threats, alog, detVars, queue, task, optVars>>

\* an exception raised by the statement at pc: the with-block, if entered,
\* is left through ThreatDetector.__exit__, and control moves to line 134
ProcessRaise(w) ==
    /\ web.faults < MaxFaults
    /\ proc[w].pc \in RaisePoints
    /\ proc' = [proc EXCEPT ![w].pc = "except", ![w].open = FALSE]
    /\ web' = [web EXCEPT !.faults = @ + 1]
    /\ UNCHANGED <<raster, vcall, gcall, cleanup, analysis, image, threats, alog, detVars, queue, task, optVars>>

\* lines 134-145: the failed record, save(update_fields=[status, error_message,
\* completed_at]), the error log entry, return False
ExceptHandler(w) ==
    /\ proc[w].pc = "except"
    /\ proc' = [proc EXCEPT ![w].inst.status = "failed",
                            ![w].inst.error_message = "error",
                            ![w].inst.completed_at = TRUE,
                            ![w].pc = "returned_false"]
    /\ analysis' = [analysis EXCEPT ![proc[w].aid].status = "failed",
                                    ![proc[w].aid].error_message = "error",
                                    ![proc[w].aid].completed_at = TRUE]
    /\ alog' = AppendLog(alog, proc[w].aid, "error", "Analysis failed")
    /\ UNCHANGED <<raster, vcall, gcall, cleanup, image, threats, detVars, taskVars, optVars>>

-----------------------------------------------------------------------------
(* detect_fires_explosions: the steps *)

\* lines 163-171: the call, up to the first tile
FireBegin(w) ==
    /\ w = DetailRun
    /\ proc[w].pc = "fire"
    /\ det.pc \in {"idle", "done"}
    /\ IF raster.count < 3
       THEN /\ det' = [BeginCall(det, "fire") EXCEPT !.pc = "end"]
            /\ pylog' = {LogEvent("warning", "fire_bands", <<>>)}
       ELSE /\ det' = BeginCall(det, "fire")
            /\ pylog' = {}
    /\ UNCHANGED <<raster, vcall, gcall, cleanup, analysis, image, threats, alog, proc, taskVars, optVars>>

\* lines 174-289: one tile, from its reads to its finally clause
FireTile(w) ==
    /\ w = DetailRun
    /\ det.name = "fire" /\ det.pc = "scan"
    /\ det.tile <= Len(FireTiles(raster))
    /\ LET o == FireTiles(raster)[det.tile]
       IN \E outcome \in FireOutcomes :
          \E regions \in SeqsUpTo(FireCands(FireWindow(raster, o)), MaxRegions) :
            /\ outcome # "ok" => regions = <<>>
            /\ LET st0 == [dets |-> det.detections, seen |-> det.processed_regions,
                           dropped |-> det.dropped, log |-> {}, raised |-> FALSE]
                   st == FireRegions(raster, o, regions, st0)
                   caught == outcome \notin {"ok", "all_zero"} \/ st.raised
                   fin == DelBands(FireBound(det.locals, outcome))
                   d1 == [det EXCEPT !.detections = st.dets,
                                     !.processed_regions = st.seen,
                                     !.dropped = st.dropped,
                                     !.visited = Append(@, o),
                                     !.last = outcome,
                                     !.locals = fin.locals]
               IN  /\ det' = IF fin.ok THEN [d1 EXCEPT !.tile = @ + 1]
                             ELSE OuterExcept(d1)
                   /\ pylog' = pylog \cup st.log
                        \cup (IF caught THEN {LogEvent("warning", "fire_window", o)} ELSE {})
                        \cup (IF fin.ok THEN {} ELSE {LogEvent("error", "fire", o)})
    /\ UNCHANGED <<raster, vcall, gcall, cleanup, analysis, image, threats, alog, proc, taskVars, optVars>>

\* lines 291-293: the loops are exhausted
FireScanEnd(w) ==
    /\ w = DetailRun
    /\ det.name = "fire" /\ det.pc = "scan"
    /\ det.tile > Len(FireTiles(raster))
    /\ det' = [det EXCEPT !.pc = "end"]
    /\ pylog' = pylog \cup {LogEvent("info", "fire_count", <<>>)}
    /\ UNCHANGED <<raster, vcall, gcall, cleanup, analysis, image, threats, alog, proc, taskVars, optVars>>

\* "return detections" of the running detector, and the extend in process();
\* the locals of the call are gone once it has returned
DetectorReturn(w) ==
    /\ w = DetailRun
    /\ proc[w].pc = det.name
    /\ det.pc \in {"end", "raised"}
    /\ proc' = [proc EXCEPT ![w] = TakeResult(@, det.name, det.pc = "end", det.detections,
                                               \E e \in pylog : e.what \in FailureEvents)]
    /\ det' = [BeginCall(det, det.name) EXCEPT !.pc = IF det.pc = "end" THEN "done" ELSE "raised"]
    /\ pylog' = {}
    /\ UNCHANGED <<raster, vcall, gcall, cleanup, analysis, image, threats, alog, taskVars, optVars>>

-----------------------------------------------------------------------------
(* detect_structural_damage *)

DamageTiles(r) ==
    RowMajor(PyRange(r.width - SAMPLE_SIZE, DAMAGE_STRIDE),
             PyRange(r.height - SAMPLE_SIZE, DAMAGE_STRIDE))

\* what may happen to one sample; "dense" is edge_density > 0.2
DamageOutcomes == {"read_raises", "all_zero", "normalize_raises", "sparse", "dense"}

\* centre of mass of the edge mask of a dense sample, and its environment
DamageCands == [cx : {256, 505}, cy : {256}, env : {"ok", "warp_raises", "bounds_raise"}]

\* lines 355-371: what the damage loop does with the centre of a dense sample
DamageVerdict(r, c, gx, gy, seen) ==
    LET geo == PixelToGeo(r, gx, gy, c.env = "warp_raises")
    IN  IF ~ValidateCoordinates(r, geo[1], geo[2], c.env = "bounds_raise")
        THEN "invalid"
        ELSE IF RegionKey(gx, gy, DAMAGE_BUCKET) \in seen THEN "duplicate"
        ELSE "emit"

\* lines 347-398 on st = [dets, seen, log]
DamageCentre(r, o, c, st) ==
    LET gx == o[1] + c.cx
        gy == o[2] + c.cy
        geo == PixelToGeo(r, gx, gy, c.env = "warp_raises")
        v == DamageVerdict(r, c, gx, gy, st.seen)
    IN  CASE v = "invalid" ->
                [st EXCEPT !.log = @ \cup {LogEvent("warning", "damage_invalid", o)}]
          [] v = "duplicate" -> [st EXCEPT !.dropped = @ \cup {<<gx, gy>>}]
          [] OTHER ->
                [st EXCEPT !.seen = @ \cup {RegionKey(gx, gy, DAMAGE_BUCKET)},
                           !.dets = Append(@, Detection("structural_damage", gx, gy, geo,
                                                        SAMPLE_SIZE * SAMPLE_SIZE))]

\* lines 308-315
DamageBegin(w) ==
    /\ w = DetailRun
    /\ proc[w].pc = "damage"
    /\ det.pc \in {"idle", "done"}
    /\ det' = BeginCall(det, "damage")
    /\ pylog' = {}
    /\ UNCHANGED <<raster, vcall, gcall, cleanup, analysis, image, threats, alog, proc, taskVars, optVars>>

\* lines 321-412: one sample, from its read to its finally clause
DamageSample(w) ==
    /\ w = DetailRun
    /\ det.name = "damage" /\ det.pc = "scan"
    /\ det.tile <= Len(DamageTiles(raster))
    /\ LET o == DamageTiles(raster)[det.tile]
       IN \E outcome \in DamageOutcomes : \E c \in DamageCands :
            /\ outcome # "dense" => c = CHOOSE x \in DamageCands : TRUE
            /\ LET st0 == [dets |-> det.detections, seen |-> det.processed_regions,
                           dropped |-> det.dropped, log |-> {}]
                   st == IF outcome = "dense" THEN DamageCentre(raster, o, c, st0) ELSE st0
                   caught == outcome \in {"read_raises", "normalize_raises"}
               IN  /\ det' = [det EXCEPT !.detections = st.dets,
                                         !.processed_regions = st.seen,
                                         !.dropped = st.dropped,
                                         !.visited = Append(@, o),
                                         !.last = outcome,
                                         !.locals = {},
                                         !.tile = @ + 1]
                   /\ pylog' = pylog \cup st.log
                        \cup (IF caught THEN {LogEvent("warning", "damage_sample", o)} ELSE {})
    /\ UNCHANGED <<raster, vcall, gcall, cleanup, analysis, image, threats, alog, proc, taskVars, optVars>>

\* line 414
DamageScanEnd(w) ==
    /\ w = DetailRun
    /\ det.name = "damage" /\ det.pc = "scan"
    /\ det.tile > Len(DamageTiles(raster))
    /\ det' = [det EXCEPT !.pc = "end"]
    /\ pylog' = pylog \cup {LogEvent("info", "damage_count", <<>>)}
    /\ UNCHANGED <<raster, vcall, gcall, cleanup, analysis, image, threats, alog, proc, taskVars, optVars>>

-----------------------------------------------------------------------------
(* detect_vehicle_concentrations *)

VehicleTiles(r) ==
    RowMajor(PyRange(r.width - SAMPLE_SIZE, VEHICLE_STRIDE),
             PyRange(r.height - SAMPLE_SIZE, VEHICLE_STRIDE))

\* faulty variant: the tenth of the grid is rounded up
MaxSamples_RoundedUp(r) ==
    Min(4, ((r.height \div VEHICLE_STRIDE) * (r.width \div VEHICLE_STRIDE) + 9) \div 10)

\* line 443
MaxSamples(r) ==
    Min(4, ((r.height \div VEHICLE_STRIDE) * (r.width \div VEHICLE_STRIDE)) \div 10)

VehicleOutcomes == {"read_raises", "all_zero", "blob_raises", "ok"}

\* groups of blobs a sample may hold: n keypoints in a row, 10 px apart,
\* starting at the window-relative point (cx, cy)
BlobGroups == {[cx |-> 100, cy |-> 100, n |-> 6],
               [cx |-> 400, cy |-> 100, n |-> 5],
               [cx |-> 100, cy |-> 100, n |-> 3]}

\* lines 480-483: the keypoints of one group in full-image coordinates
GroupKeypoints(o, g) == [i \in 1..g.n |-> <<o[1] + g.cx + 10 * (i - 1), o[2] + g.cy>>]

\* the keypoints of a set of groups, group after group
RECURSIVE AllKeypoints(_, _)
AllKeypoints(o, groups) ==
    IF groups = {} THEN <<>>
    ELSE LET g == CHOOSE x \in groups :
                    \A y \in groups : x.cx < y.cx \/ (x.cx = y.cx /\ x.n >= y.n)
         IN  GroupKeypoints(o, g) \o AllKeypoints(o, groups \ {g})

\* lines 429-444
VehicleBegin(w) ==
    /\ w = DetailRun
    /\ proc[w].pc = "vehicle"
    /\ det.pc \in {"idle", "done"}
    /\ det' = BeginCall(det, "vehicle")
    /\ pylog' = {}
    /\ UNCHANGED <<raster, vcall, gcall, cleanup, analysis, image, threats, alog, proc, taskVars, optVars>>

\* faulty variant: only the samples that reach the blob detector are counted
VehicleSample_SkipFree(w) ==
    /\ w = DetailRun
    /\ det.name = "vehicle" /\ det.pc = "scan"
    /\ det.sample_count < MaxSamples(raster)
    /\ det.tile <= Len(VehicleTiles(raster))
    /\ LET o == VehicleTiles(raster)[det.tile]
       IN \E outcome \in VehicleOutcomes : \E groups \in SUBSET BlobGroups :
            /\ Cardinality(groups) <= MaxBlobs
            /\ outcome # "ok" => groups = {}
            /\ det' = [det EXCEPT !.sample_count = IF outcome = "ok" THEN @ + 1 ELSE @,
                                  !.keypoints = @ \o AllKeypoints(o, groups),
                                  !.visited = Append(@, o),
                                  !.last = outcome,
                                  !.tile = @ + 1]
            /\ pylog' = pylog \cup
                    (IF outcome \in {"read_raises", "blob_raises"}
                     THEN {LogEvent("warning", "vehicle_sample", o)} ELSE {})
    /\ UNCHANGED <<raster, vcall, gcall, cleanup, analysis, image, threats, alog, proc, taskVars, optVars>>

\* lines 446-489: one sample
VehicleSample(w) ==
    /\ w = DetailRun
    /\ det.name = "vehicle" /\ det.pc = "scan"
    /\ det.sample_count < MaxSamples(raster)
    /\ det.tile <= Len(VehicleTiles(raster))
    /\ LET o == VehicleTiles(raster)[det.tile]
       IN \E outcome \in VehicleOutcomes : \E groups \in SUBSET BlobGroups :
            /\ Cardinality(groups) <= MaxBlobs
            /\ outcome # "ok" => groups = {}
            /\ det' = [det EXCEPT !.sample_count = @ + 1,
                                  !.keypoints = @ \o AllKeypoints(o, groups),
                                  !.visited = Append(@, o),
                                  !.last = outcome,
                                  !.tile = @ + 1]
            /\ pylog' = pylog \cup
                    (IF outcome \in {"read_raises", "blob_raises"}
                     THEN {LogEvent("warning", "vehicle_sample", o)} ELSE {})
    /\ UNCHANGED <<raster, vcall, gcall, cleanup, analysis, image, threats, alog, proc, taskVars, optVars>>

\* the sampling loops end: the cap is reached or the grid is exhausted
VehicleScanEnd(w) ==
    /\ w = DetailRun
    /\ det.name = "vehicle" /\ det.pc = "scan"
    /\ ~(det.sample_count < MaxSamples(raster) /\ det.tile <= Len(VehicleTiles(raster)))
    /\ det' = [det EXCEPT !.pc = "cluster"]
    /\ UNCHANGED <<raster, vcall, gcall, cleanup, analysis, image, threats, alog, proc, pylog, taskVars, optVars>>

\* euclidean distance <= t, on squares
Near(p, q) ==
    (p[1] - q[1]) * (p[1] - q[1]) + (p[2] - q[2]) * (p[2] - q[2])
        <= CLUSTER_DISTANCE * CLUSTER_DISTANCE

RECURSIVE Grow(_, _)
Grow(S, pts) ==
    LET T == S \cup {j \in DOMAIN pts : \E i \in S : Near(pts[i], pts[j])}
    IN  IF T = S THEN S ELSE Grow(T, pts)

\* fclusterdata(points, t=200, criterion="distance"): single linkage, so the
\* flat clusters are the components of the "within t" graph (as index sets)
Clusters(pts) == {Grow({i}, pts) : i \in DOMAIN pts}

Orderings(S) == {f \in [1..Cardinality(S) -> S] : Range(f) = S}

RECURSIVE SumCoord(_, _, _)
SumCoord(pts, idx, k) ==
    IF idx = {} THEN 0
    ELSE LET i == CHOOSE j \in idx : TRUE
         IN  pts[i][k] + SumCoord(pts, idx \ {i}, k)

\* lines 508-524: what the cluster loop does with one large enough cluster
VehicleVerdict(r, env, gx, gy, seen) ==
    LET geo == PixelToGeo(r, gx, gy, env = "warp_raises")
    IN  IF ~ValidateCoordinates(r, geo[1], geo[2], env = "bounds_raise")
        THEN "invalid"
        ELSE IF RegionKey(gx, gy, VEHICLE_BUCKET) \in seen THEN "duplicate"
        ELSE "emit"

\* lines 502-553: one iteration of "for cluster_id in unique_clusters"
VehicleCluster(r, pts, idx, env, st) ==
    LET n == Cardinality(idx)
        gx == SumCoord(pts, idx, 1) \div n
        gy == SumCoord(pts, idx, 2) \div n
        geo == PixelToGeo(r, gx, gy, env = "warp_raises")
        v == VehicleVerdict(r, env, gx, gy, st.seen)
    IN  IF ~(n >= MIN_CLUSTER) THEN st
        ELSE CASE v = "invalid" ->
                    [st EXCEPT !.log = @ \cup {LogEvent("warning", "vehicle_invalid", <<gx, gy>>)}]
               [] v = "duplicate" -> [st EXCEPT !.dropped = @ \cup {<<gx, gy>>}]
               [] OTHER ->
                    [st EXCEPT !.seen = @ \cup {RegionKey(gx, gy, VEHICLE_BUCKET)},
                               !.dets = Append(@, Detection("vehicle_convoy", gx, gy, geo, n))]

RECURSIVE VehicleClusters(_, _, _, _, _)
VehicleClusters(r, pts, order, env, st) ==
    IF order = <<>> THEN st
    ELSE VehicleClusters(r, pts, Tail(order), env,
                         VehicleCluster(r, pts, Head(order), env, st))

\* lines 491-562: clustering of the collected keypoints, then the count log
VehicleMerge(w) ==
    /\ w = DetailRun
    /\ det.name = "vehicle" /\ det.pc = "cluster"
    /\ \E env \in {"ok", "warp_raises", "bounds_raise", "cluster_raises"} :
       \E order \in Orderings(Clusters(det.keypoints)) :
         LET st0 == [dets |-> det.detections, seen |-> det.processed_regions,
                     dropped |-> det.dropped, log |-> {}]
             run == Len(det.keypoints) > 5 /\ env # "cluster_raises"
             st == IF run THEN VehicleClusters(raster, det.keypoints, order, env, st0)
                   ELSE st0
         IN  /\ det' = [det EXCEPT !.detections = st.dets,
                                   !.processed_regions = st.seen,
                                   !.dropped = st.dropped,
                                   !.pc = "end"]
             /\ pylog' = pylog \cup st.log
                  \cup (IF Len(det.keypoints) > 5 /\ env = "cluster_raises"
                        THEN {LogEvent("warning", "vehicle_cluster", <<>>)} ELSE {})
                  \cup {LogEvent("info", "vehicle_count", <<>>)}
    /\ UNCHANGED <<raster, vcall, gcall, cleanup, analysis, image, threats, alog, proc, taskVars, optVars>>

-----------------------------------------------------------------------------
(* run_satellite_analysis, and the requests that enqueue it *)

IdleTask == [state |-> "idle", aid |-> 0, retries |-> 0]

\* a run_satellite_analysis message: the record's id and self.request.retries
AnalysisMessage(a, retries) == [aid |-> a, retries |-> retries]

\* what the requests and the task executions have done so far
NoRequests == [created |-> "none", delays |-> 0, triggers |-> 0, faults |-> 0,
               outcomes |-> {}]

NoImage == [status |-> "none", optimized_image |-> FALSE, analyzed |-> FALSE,
            analysis_count |-> 0, processing_error |-> "",
            thumbnail |-> FALSE, map_overlay |-> FALSE]

\* a SatelliteImage as the admin add form creates it
NewImage == [NoImage EXCEPT !.status = "uploaded"]

\* a SatelliteImage after a successful optimization
OptimizedImage == [NewImage EXCEPT !.status = "optimized", !.optimized_image = TRUE]

\* post_save of an AnalysisResult: the queue afterwards
AutoRunAnalysis(q, a, created, status) ==
    IF created /\ status = "pending" THEN Append(q, AnalysisMessage(a, 0)) ELSE q

\* POST /satellite-images/{id}/analyze/: the record is created (which runs
\* the post_save receiver), then the view calls .delay itself; if that call
\* raises, the view marks the record failed
Analyze(a) ==
    /\ ~analysis[a].exists
    /\ image.status = "optimized"
    /\ \E type \in AnalysisTypes : \E delayRaises \in BOOLEAN :
        LET row == NewRow(type)
            q1 == AutoRunAnalysis(queue, a, TRUE, row.status)
            q2 == IF delayRaises THEN q1 ELSE Append(q1, AnalysisMessage(a, 0))
        IN  /\ analysis' = [analysis EXCEPT ![a] =
                              IF delayRaises
                              THEN [row EXCEPT !.status = "failed", !.error_message = "error"]
                              ELSE row]
            /\ queue' = q2
            /\ web' = [web EXCEPT !.created = "analyze",
                                  !.delays = @ + Len(q2) - Len(queue)]
    /\ UNCHANGED <<raster, vcall, gcall, cleanup, image, threats, alog, proc, detVars, task, optVars>>

\* the admin actions run_threat_detection_analysis and
\* run_change_detection_analysis on one selected image
AdminAnalysis(a) ==
    /\ ~analysis[a].exists
    /\ image.status = "optimized"
    /\ \E type \in {"threat_detection", "change_detection"} :
        LET row == NewRow(type)
            q1 == AutoRunAnalysis(queue, a, TRUE, row.status)
            q2 == Append(q1, AnalysisMessage(a, 0))
        IN  /\ analysis' = [analysis EXCEPT ![a] = row]
            /\ queue' = q2
            /\ web' = [web EXCEPT !.created = "admin_action",
                                  !.delays = @ + Len(q2) - Len(queue)]
    /\ UNCHANGED <<raster, vcall, gcall, cleanup, image, threats, alog, proc, detVars, task, optVars>>

\* the add form of AnalysisResultAdmin: satellite_image, analysis_type and
\* status are editable, whatever the status of the image
AdminAdd(a) ==
    /\ ~analysis[a].exists
    /\ image.status # "none"
    /\ \E type \in AnalysisTypes : \E status \in {"pending", "failed"} :
        LET row == [NewRow(type) EXCEPT !.status = status]
            q1 == AutoRunAnalysis(queue, a, TRUE, row.status)
        IN  /\ analysis' = [analysis EXCEPT ![a] = row]
            /\ queue' = q1
            /\ web' = [web EXCEPT !.created = "admin_add",
                                  !.delays = @ + Len(q1) - Len(queue)]
    /\ UNCHANGED <<raster, vcall, gcall, cleanup, image, threats, alog, proc, detVars, task, optVars>>

\* lines 57-65: a worker takes a message, loads the record with its image
\* (DoesNotExist when the record is gone) and constructs the
\* AnalysisProcessor; optimized_image.path raises ValueError when the image
\* has no optimized file
TaskStart(w) ==
    /\ task[w].state = "idle"
    /\ queue # <<>>
    /\ LET m == Head(queue)
       IN  /\ queue' = Tail(queue)
           /\ IF ~analysis[m.aid].exists
              THEN /\ task' = [task EXCEPT ![w] = [state |-> "not_found", aid |-> m.aid,
                                                   retries |-> m.retries]]
                   /\ proc' = proc
              ELSE IF image.optimized_image
              THEN /\ task' = [task EXCEPT ![w] = [state |-> "process", aid |-> m.aid,
                                                   retries |-> m.retries]]
                   /\ proc' = [proc EXCEPT ![w] =
                                [IdleProc EXCEPT !.pc = "start", !.aid = m.aid,
                                                 !.inst = analysis[m.aid],
                                                 !.img = [analyzed |-> image.analyzed,
                                                          analysis_count |-> image.analysis_count]]]
              ELSE /\ task' = [task EXCEPT ![w] = [state |-> "error", aid |-> m.aid,
                                                   retries |-> m.retries]]
                   /\ proc' = proc
    /\ UNCHANGED <<raster, vcall, gcall, cleanup, analysis, image, threats, alog, detVars, web, optVars>>

\* what a whole detector call hands back to process() for the raster of the
\* image: its list (the fire detector returns an empty one for fewer than 3
\* bands), and whether it logged a failure on the way
DetectorResult(r, name) ==
    [dets |-> IF name = "fire" /\ r.count < 3 THEN <<>>
              ELSE <<Detection(name, 52, 60, PixelToGeo(r, 52, 60, FALSE), 150)>>,
     failures |-> FALSE]

\* lines 48, 52, 56, 61 of process(): a detector call, start to return
RunDetector(w) ==
    /\ task[w].state = "process"
    /\ proc[w].pc \in {"fire", "damage", "vehicle"}
    /\ LET res == DetectorResult(raster, proc[w].pc)
       IN  proc' = [proc EXCEPT ![w] =
                     TakeResult(@, proc[w].pc, TRUE, res.dets, res.failures)]
    /\ UNCHANGED <<raster, vcall, gcall, cleanup, analysis, image, threats, alog, detVars, taskVars, optVars>>

\* lines 68-74: process() returned True
TaskReturn(w) ==
    /\ task[w].state = "process"
    /\ proc[w].pc = "returned_true"
    /\ task' = [task EXCEPT ![w] = IdleTask]
    /\ proc' = [proc EXCEPT ![w] = IdleProc]
    /\ web' = [web EXCEPT !.outcomes = @ \cup {"success"}]
    /\ UNCHANGED <<raster, vcall, gcall, cleanup, analysis, image, threats, alog, detVars, queue, optVars>>

\* lines 78-80: the record does not exist; the error result is returned
TaskNotFound(w) ==
    /\ task[w].state = "not_found"
    /\ task' = [task EXCEPT ![w] = IdleTask]
    /\ web' = [web EXCEPT !.outcomes = @ \cup {"not_found"}]
    /\ UNCHANGED <<raster, vcall, gcall, cleanup, analysis, image, threats, alog, proc, detVars, queue, optVars>>

\* faulty variant: the retry is sent once more after max_retries is reached
TaskRetry_OneMore(w) ==
    /\ \/ task[w].state = "error"
       \/ task[w].state = "process" /\ proc[w].pc = "returned_false"
    /\ IF task[w].retries <= ANALYSIS_MAX_RETRIES
       THEN /\ queue' = Append(queue, AnalysisMessage(task[w].aid, task[w].retries + 1))
            /\ web' = [web EXCEPT !.outcomes = @ \cup {"retry"}]
       ELSE /\ queue' = queue
            /\ web' = [web EXCEPT !.outcomes = @ \cup {"gave_up"}]
    /\ task' = [task EXCEPT ![w] = IdleTask]
    /\ proc' = [proc EXCEPT ![w] = IdleProc]
    /\ UNCHANGED <<raster, vcall, gcall, cleanup, analysis, image, threats, alog, detVars, optVars>>

\* lines 75-85: process() returned False or the constructor raised; the
\* handler calls self.retry, which sends the message again until max_retries
\* is reached and then lets the exception end the task
TaskRetry(w) ==
    /\ \/ task[w].state = "error"
       \/ task[w].state = "process" /\ proc[w].pc = "returned_false"
    /\ IF task[w].retries < ANALYSIS_MAX_RETRIES
       THEN /\ queue' = Append(queue, AnalysisMessage(task[w].aid, task[w].retries + 1))
            /\ web' = [web EXCEPT !.outcomes = @ \cup {"retry"}]
       ELSE /\ queue' = queue
            /\ web' = [web EXCEPT !.outcomes = @ \cup {"gave_up"}]
    /\ task' = [task EXCEPT ![w] = IdleTask]
    /\ proc' = [proc EXCEPT ![w] = IdleProc]
    /\ UNCHANGED <<raster, vcall, gcall, cleanup, analysis, image, threats, alog, detVars, optVars>>

-----------------------------------------------------------------------------
(* optimize_satellite_image, optimize_satellite_image_file and create_cog *)

\* src_open: the input raster is open (ImageOptimizer.__enter__ / __exit__)
IdleOpt == [pc |-> "idle", retries |-> 0, progress |-> 0, src_open |-> FALSE,
            previews |-> <<>>, inst |-> NoImage]

\* the COG file at cog_path: its content, the executions that have it open
\* for writing, and whether two of them have written it at once
NoCog == [state |-> "none", writers |-> {}, raced |-> FALSE, profile |-> <<>>]

\* lines 143-164: the compression settings of the output profile
CogProfile(compression, count) ==
    IF compression = "JPEG" /\ count >= 3
    THEN [compress |-> "JPEG", photometric |-> "YCbCr"]
    ELSE IF compression = "JPEG"
    THEN [compress |-> "DEFLATE", photometric |-> "none"]
    ELSE [compress |-> compression, photometric |-> "none"]

\* the uploads the optimizer is run on
OptRasters == [width : {2048}, height : {1024}, count : 1..MaxBands, crs : {"EPSG:4326"}]

\* lines 182-189: the windows of one band
CogWindows(r) == RowMajor(PyRange(r.width, COG_WINDOW), PyRange(r.height, COG_WINDOW))

\* lines 186-190: the window at origin o
CogWindow(r, o) ==
    [x |-> o[1], y |-> o[2],
     w |-> Min(o[1] + COG_WINDOW, r.width) - o[1],
     h |-> Min(o[2] + COG_WINDOW, r.height) - o[2]]

\* lines 178-195: the k-th dst.write of create_cog: bands in the outer loop,
\* the windows of a band in the inner loops
CogWriteAt(r, k) ==
    [band |-> ((k - 1) \div Len(CogWindows(r))) + 1,
     win |-> CogWindow(r, CogWindows(r)[((k - 1) % Len(CogWindows(r))) + 1])]

\* uploads of sizes around the multiples of the window size
UploadSizes == {1, 600, 1023, 1024, 1025, 2049, 2500}

UploadRasters == [width : UploadSizes, height : UploadSizes, count : 1..MaxBands,
                  crs : {"EPSG:4326"}]

\* the number of dst.write calls of create_cog
CogWrites(r) == r.count * Len(CogWindows(r))

\* post_save of a SatelliteImage: the queue afterwards
AutoOptimize(q, created, status) ==
    IF created /\ status = "uploaded" THEN Append(q, [retries |-> 0]) ELSE q

\* the add form of SatelliteImageAdmin (status is read-only: the default)
CreateImage ==
    /\ image.status = "none"
    /\ image' = NewImage
    /\ optq' = AutoOptimize(optq, TRUE, NewImage.status)
    /\ web' = [web EXCEPT !.created = "image", !.delays = @ + Len(optq') - Len(optq)]
    /\ UNCHANGED <<raster, vcall, gcall, cleanup, analysis, threats, alog, proc, detVars, queue, task, opt, cog>>

\* the admin action trigger_optimization on the image
TriggerOptimization ==
    /\ web.triggers < MaxTriggers
    /\ image.status = "uploaded"
    /\ optq' = Append(optq, [retries |-> 0])
    /\ web' = [web EXCEPT !.triggers = @ + 1, !.delays = @ + 1]
    /\ UNCHANGED <<raster, vcall, gcall, cleanup, analysis, image, threats, alog, proc, detVars, queue, task, opt, cog>>

\* tasks.py 22-28 and image_optimizer.py 374-375: a worker takes a message,
\* loads the image, sets status = "processing", save(update_fields=["status"])
OptStart(w) ==
    /\ opt[w].pc = "idle"
    /\ optq # <<>>
    /\ optq' = Tail(optq)
    /\ IF image.status = "none"
       THEN /\ opt' = [opt EXCEPT ![w] = [IdleOpt EXCEPT !.pc = "not_found",
                                                         !.retries = Head(optq).retries]]
            /\ image' = image
       ELSE /\ opt' = [opt EXCEPT ![w] = [pc |-> "input", retries |-> Head(optq).retries,
                                          progress |-> 0, src_open |-> FALSE,
                                          previews |-> <<>>,
                                          inst |-> [image EXCEPT !.status = "processing"]]]
            /\ image' = [image EXCEPT !.status = "processing"]
    /\ UNCHANGED <<raster, vcall, gcall, cleanup, analysis, threats, alog, proc, detVars, taskVars, cog>>

\* lines 377-400: the input file is opened (the with-block is entered),
\* metadata and bounds are read into the instance
OptInput(w) ==
    /\ opt[w].pc = "input"
    /\ opt' = [opt EXCEPT ![w].src_open = TRUE, ![w].pc = "cog_open"]
    /\ UNCHANGED <<raster, vcall, gcall, cleanup, analysis, image, threats, alog, proc, detVars, taskVars, optq, cog>>

\* image_optimizer.py 427 and create_cog 141-172: called with the default
\* compression "JPEG"; rasterio.open(output_path, "w", **profile) creates or
\* truncates the file
CogOpen(w) ==
    /\ opt[w].pc = "cog_open"
    /\ cog' = [state |-> "partial", writers |-> cog.writers \cup {w},
               raced |-> cog.writers # {},
               profile |-> CogProfile("JPEG", raster.count)]
    /\ opt' = [opt EXCEPT ![w].pc = "cog_write", ![w].progress = 0]
    /\ UNCHANGED <<raster, vcall, gcall, cleanup, analysis, image, threats, alog, proc, detVars, taskVars, optq>>

\* lines 178-195: one window of one band is read and written
CogWrite(w) ==
    /\ opt[w].pc = "cog_write"
    /\ opt[w].progress < CogWrites(raster)
    /\ opt' = [opt EXCEPT ![w].progress = @ + 1]
    /\ UNCHANGED <<raster, vcall, gcall, cleanup, analysis, image, threats, alog, proc, detVars, taskVars, optq, cog>>

\* what the file holds once a writer has closed it: still being written if
\* another writer has it open, either outcome if two writers wrote it at
\* once, complete otherwise
ClosedStates(c, w) ==
    IF c.writers \ {w} # {} THEN {"partial"}
    ELSE IF c.raced THEN {"partial", "complete"}
    ELSE {"complete"}

\* faulty variant: the overviews are built after the first band
CogFinish_Early(w) ==
    /\ opt[w].pc = "cog_write"
    /\ opt[w].progress >= Len(CogWindows(raster))
    /\ \E st \in ClosedStates(cog, w) :
        cog' = [cog EXCEPT !.state = st, !.writers = @ \ {w}]
    /\ opt' = [opt EXCEPT ![w].inst.optimized_image = TRUE, ![w].pc = "thumb"]
    /\ UNCHANGED <<raster, vcall, gcall, cleanup, analysis, image, threats, alog, proc, detVars, taskVars, optq>>

\* lines 197-205 and 427-435: tags, overviews, the file is closed, create_cog
\* returns True and the instance gets its optimized_image name
CogFinish(w) ==
    /\ opt[w].pc = "cog_write"
    /\ opt[w].progress = CogWrites(raster)
    /\ \E st \in ClosedStates(cog, w) :
        cog' = [cog EXCEPT !.state = st, !.writers = @ \ {w}]
    /\ opt' = [opt EXCEPT ![w].inst.optimized_image = TRUE, ![w].pc = "thumb"]
    /\ UNCHANGED <<raster, vcall, gcall, cleanup, analysis, image, threats, alog, proc, detVars, taskVars, optq>>

\* lines 207-209 and 436-437: an exception inside create_cog closes the
\* file as it is, create_cog returns False, and the caller raises
CogFail(w) ==
    /\ opt[w].pc \in {"cog_open", "cog_write"}
    /\ cog' = [cog EXCEPT !.writers = @ \ {w}]
    /\ opt' = [opt EXCEPT ![w].src_open = FALSE, ![w].pc = "except"]
    /\ UNCHANGED <<raster, vcall, gcall, cleanup, analysis, image, threats, alog, proc, detVars, taskVars, optq>>

\* what create_thumbnail and create_map_overlay_png return: a PIL image, or
\* None when building it raised (lines 276-278 and 350-352)
PreviewResults == {"image", "none"}

\* faulty variant: a thumbnail that could not be built ends the optimization
OptThumb_NoneFatal(w) ==
    /\ opt[w].pc = "thumb"
    /\ \E t \in PreviewResults :
        opt' = [opt EXCEPT ![w].previews = Append(@, t),
                           ![w].inst.thumbnail = (t = "image"),
                           ![w].src_open = (t = "image"),
                           ![w].pc = IF t = "image" THEN "overlay" ELSE "except"]
    /\ UNCHANGED <<raster, vcall, gcall, cleanup, analysis, image, threats, alog, proc, detVars, taskVars, optq, cog>>

\* lines 439-455: create_thumbnail; a thumbnail that was built is stored on
\* the instance with save=False, None is skipped
OptThumb(w) ==
    /\ opt[w].pc = "thumb"
    /\ \E t \in PreviewResults :
        opt' = [opt EXCEPT ![w].previews = Append(@, t),
                           ![w].inst.thumbnail = (t = "image"),
                           ![w].pc = "overlay"]
    /\ UNCHANGED <<raster, vcall, gcall, cleanup, analysis, image, threats, alog, proc, detVars, taskVars, optq, cog>>

\* lines 457-476: create_map_overlay_png; an overlay that was built is stored
\* with save=False, None is logged as a warning; the with-block ends and
\* ImageOptimizer.__exit__ closes the input
OptOverlay(w) ==
    /\ opt[w].pc = "overlay"
    /\ \E o \in PreviewResults :
        opt' = [opt EXCEPT ![w].previews = Append(@, o),
                           ![w].inst.map_overlay = (o = "image"),
                           ![w].src_open = FALSE,
                           ![w].pc = "final"]
    /\ UNCHANGED <<raster, vcall, gcall, cleanup, analysis, image, threats, alog, proc, detVars, taskVars, optq, cog>>

\* lines 479-485: status = "optimized" and a save of every field
OptFinalSave(w) ==
    /\ opt[w].pc = "final"
    /\ image' = [opt[w].inst EXCEPT !.status = "optimized"]
    /\ opt' = [opt EXCEPT ![w].inst.status = "optimized", ![w].pc = "returned_true"]
    /\ UNCHANGED <<raster, vcall, gcall, cleanup, analysis, threats, alog, proc, detVars, taskVars, optq, cog>>

\* an exception raised outside create_cog: the with-block, if entered, is
\* left through ImageOptimizer.__exit__, and control moves to line 487
OptRaise(w) ==
    /\ opt[w].pc \in {"input", "thumb", "overlay", "final"}
    /\ opt' = [opt EXCEPT ![w].src_open = FALSE, ![w].pc = "except"]
    /\ UNCHANGED <<raster, vcall, gcall, cleanup, analysis, image, threats, alog, proc, detVars, taskVars, optq, cog>>

\* lines 487-492: status = "failed",
\* save(update_fields=["status", "processing_error"]), return False
OptExcept(w) ==
    /\ opt[w].pc = "except"
    /\ image' = [image EXCEPT !.status = "failed", !.processing_error = "error"]
    /\ opt' = [opt EXCEPT ![w].inst.status = "failed",
                          ![w].inst.processing_error = "error",
                          ![w].pc = "returned_false"]
    /\ UNCHANGED <<raster, vcall, gcall, cleanup, analysis, threats, alog, proc, detVars, taskVars, optq, cog>>

\* tasks.py 35-37: the image does not exist; the error result is returned
OptNotFound(w) ==
    /\ opt[w].pc = "not_found"
    /\ opt' = [opt EXCEPT ![w] = IdleOpt]
    /\ web' = [web EXCEPT !.outcomes = @ \cup {"not_found"}]
    /\ UNCHANGED <<raster, vcall, gcall, cleanup, analysis, image, threats, alog, proc, detVars, queue, task, optq, cog>>

\* tasks.py 30-32
OptReturn(w) ==
    /\ opt[w].pc = "returned_true"
    /\ opt' = [opt EXCEPT ![w] = IdleOpt]
    /\ web' = [web EXCEPT !.outcomes = @ \cup {"success"}]
    /\ UNCHANGED <<raster, vcall, gcall, cleanup, analysis, image, threats, alog, proc, detVars, queue, task, optq, cog>>

\* tasks.py 33-43
OptRetry(w) ==
    /\ opt[w].pc = "returned_false"
    /\ IF opt[w].retries < OPTIMIZE_MAX_RETRIES
       THEN /\ optq' = Append(optq, [retries |-> opt[w].retries + 1])
            /\ web' = [web EXCEPT !.outcomes = @ \cup {"retry"}]
       ELSE /\ optq' = optq
            /\ web' = [web EXCEPT !.outcomes = @ \cup {"gave_up"}]
    /\ opt' = [opt EXCEPT ![w] = IdleOpt]
    /\ UNCHANGED <<raster, vcall, gcall, cleanup, analysis, image, threats, alog, proc, detVars, queue, task, cog>>

-----------------------------------------------------------------------------
(* Spec: one run of process(), with its detectors followed tile by tile *)

ProcessStep(w) ==
    \/ ProcessStart(w)
    \/ LogStart(w)
    \/ EnterDetector(w)
    \/ LogDetector(w)
    \/ ExitDetector(w)
    \/ StoreDetections(w)
    \/ CompleteSave(w)
    \/ ImageSave(w)
    \/ LogDone(w)
    \/ ProcessRaise(w)
    \/ ExceptHandler(w)

DetectorStep(w) ==
    \/ FireBegin(w)
    \/ FireTile(w)
    \/ FireScanEnd(w)
    \/ DamageBegin(w)
    \/ DamageSample(w)
    \/ DamageScanEnd(w)
    \/ VehicleBegin(w)
    \/ VehicleSample(w)
    \/ VehicleScanEnd(w)
    \/ VehicleMerge(w)
    \/ DetectorReturn(w)

\* the task of the run is in process(); nothing else is queued or running
Init ==
    /\ raster \in Rasters
    /\ vcall = NoCall
    /\ gcall = NoGeoCall /\ cleanup = IdleCleanup
    /\ image = OptimizedImage
    /\ \E type \in AnalysisTypes :
        /\ analysis = [a \in AnalysisIds |-> NewRow(type)]
        /\ proc = [w \in Workers |->
                    IF w = DetailRun
                    THEN [IdleProc EXCEPT !.pc = "start", !.aid = 1, !.inst = NewRow(type)]
                    ELSE IdleProc]
    /\ threats = [a \in AnalysisIds |-> 0]
    /\ alog = [a \in AnalysisIds |-> EmptyBag]
    /\ det = NewDetector
    /\ pylog = {}
    /\ queue = <<>>
    /\ task = [w \in Workers |->
                IF w = DetailRun THEN [IdleTask EXCEPT !.state = "process", !.aid = 1]
                ELSE IdleTask]
    /\ web = [NoRequests EXCEPT !.created = "analyze", !.delays = 1]
    /\ optq = <<>>
    /\ opt = [w \in Workers |-> IdleOpt]
    /\ cog = [NoCog EXCEPT !.state = "complete",
                            !.profile = CogProfile("JPEG", raster.count)]

Next == ProcessStep(DetailRun) \/ DetectorStep(DetailRun)

Spec == Init /\ [][Next]_vars

-----------------------------------------------------------------------------
(* SpecTask: an AnalysisResult is created and its tasks run on two workers *)

InitTask ==
    /\ raster \in {r \in Rasters : r.width = 5120 /\ r.crs = "EPSG:4326"}
    /\ vcall = NoCall
    /\ gcall = NoGeoCall /\ cleanup = IdleCleanup
    /\ image \in {OptimizedImage, NewImage}
    /\ analysis = [a \in AnalysisIds |-> NoRow]
    /\ proc = [w \in Workers |-> IdleProc]
    /\ threats = [a \in AnalysisIds |-> 0]
    /\ alog = [a \in AnalysisIds |-> EmptyBag]
    /\ det = NewDetector
    /\ pylog = {}
    /\ queue = <<>>
    /\ task = [w \in Workers |-> IdleTask]
    /\ web = NoRequests
    /\ optq = <<>>
    /\ opt = [w \in Workers |-> IdleOpt]
    /\ cog = IF image.optimized_image
             THEN [NoCog EXCEPT !.state = "complete",
                                !.profile = CogProfile("JPEG", raster.count)]
             ELSE NoCog

RequestStep(a) ==
    \/ Analyze(a)
    \/ AdminAnalysis(a)
    \/ AdminAdd(a)

TaskStep(w) ==
    \/ TaskStart(w)
    \/ RunDetector(w)
    \/ TaskReturn(w)
    \/ TaskRetry(w)

NextTask ==
    \/ \E a \in AnalysisIds : RequestStep(a)
    \/ \E w \in Workers : TaskStep(w)
    \/ \E w \in Workers : ProcessStep(w)

SpecTask == InitTask /\ [][NextTask]_vars

-----------------------------------------------------------------------------
(* SpecOpt: an image is uploaded and its optimizations run on two workers *)

InitOpt ==
    /\ raster \in OptRasters
    /\ vcall = NoCall
    /\ gcall = NoGeoCall /\ cleanup = IdleCleanup
    /\ image = NoImage
    /\ analysis = [a \in AnalysisIds |-> NoRow]
    /\ proc = [w \in Workers |-> IdleProc]
    /\ threats = [a \in AnalysisIds |-> 0]
    /\ alog = [a \in AnalysisIds |-> EmptyBag]
    /\ det = NewDetector
    /\ pylog = {}
    /\ queue = <<>>
    /\ task = [w \in Workers |-> IdleTask]
    /\ web = NoRequests
    /\ optq = <<>>
    /\ opt = [w \in Workers |-> IdleOpt]
    /\ cog = NoCog

OptStep(w) ==
    \/ OptStart(w)
    \/ OptInput(w)
    \/ CogOpen(w)
    \/ CogWrite(w)
    \/ CogFinish(w)
    \/ CogFail(w)
    \/ OptThumb(w)
    \/ OptOverlay(w)
    \/ OptFinalSave(w)
    \/ OptRaise(w)
    \/ OptExcept(w)
    \/ OptReturn(w)
    \/ OptRetry(w)

NextOpt ==
    \/ CreateImage
    \/ TriggerOptimization
    \/ \E w \in Workers : OptStep(w)

SpecOpt == InitOpt /\ [][NextOpt]_vars

-----------------------------------------------------------------------------
(* SpecWindows: the fire scan over blank rasters of many sizes *)

\* widths and heights around the multiples of the tile and window sizes
RasterSizes == {1, 600, 1023, 1024, 1025, 2047, 2048, 2049, 2304, 2305, 4096, 4097, 5000}

BlankRasters == [width : RasterSizes, height : RasterSizes, count : {3}, crs : {"EPSG:4326"}]

\* lines 174-196 and 287-289: one tile of a raster without data: the window
\* is built and its bands are read, the all-zero window is skipped, and the
\* finally clause deletes the bands
FireBlankTile(w) ==
    /\ w = DetailRun
    /\ det.name = "fire" /\ det.pc = "scan"
    /\ det.tile <= Len(FireTiles(raster))
    /\ LET o == FireTiles(raster)[det.tile]
           fin == DelBands(FireBound(det.locals, "all_zero"))
       IN  det' = [det EXCEPT !.visited = Append(@, o), !.last = "all_zero",
                              !.locals = fin.locals, !.tile = @ + 1]
    /\ UNCHANGED <<raster, vcall, gcall, cleanup, analysis, image, threats, alog, proc, pylog, taskVars, optVars>>

\* a run of the given type on a raster of rs, about to make its first
\* detector call: the record is "processing", the raster is open and the two
\* log rows of lines 38 and 47 (or 60) are written
ScanInit(rs, type) ==
    /\ raster \in rs
    /\ image = OptimizedImage
    /\ analysis = [a \in AnalysisIds |->
                    [NewRow(type) EXCEPT !.status = "processing", !.started_at = TRUE]]
    /\ proc = [w \in Workers |->
                IF w = DetailRun
                THEN [IdleProc EXCEPT !.pc = AfterLog(Dispatch(type)), !.aid = 1,
                                      !.open = TRUE, !.inst = analysis[1]]
                ELSE IdleProc]
    /\ threats = [a \in AnalysisIds |-> 0]
    /\ alog = AppendLog(AppendLog([a \in AnalysisIds |-> EmptyBag], 1, "info",
                                  "Analysis started"),
                        1, "info", LogMessage(Dispatch(type)))
    /\ det = NewDetector
    /\ pylog = {}
    /\ queue = <<>>
    /\ task = [w \in Workers |->
                IF w = DetailRun THEN [IdleTask EXCEPT !.state = "process", !.aid = 1]
                ELSE IdleTask]
    /\ web = [NoRequests EXCEPT !.created = "analyze", !.delays = 1]
    /\ optq = <<>>
    /\ opt = [w \in Workers |-> IdleOpt]
    /\ cog = [NoCog EXCEPT !.state = "complete",
                            !.profile = CogProfile("JPEG", raster.count)]

InitWindows == ScanInit(BlankRasters, "threat_detection") /\ vcall = NoCall /\ gcall = NoGeoCall /\ cleanup = IdleCleanup

NextWindows ==
    \/ FireBegin(DetailRun)
    \/ FireBlankTile(DetailRun)
    \/ FireScanEnd(DetailRun)

SpecWindows == InitWindows /\ [][NextWindows]_vars

-----------------------------------------------------------------------------
(* SpecSamples: the sampling loops of the vehicle detector over rasters of *)
(* many sizes                                                              *)

SampleWidths == {1, 512, 513, 1536, 5120, 10240}

SampleHeights == {600, 1024, 2048, 3072, 4096, 8192}

SampleRasters == [width : SampleWidths, height : SampleHeights, count : {1, 3},
                  crs : {"EPSG:4326"}]

InitSamples == ScanInit(SampleRasters, "object_recognition") /\ vcall = NoCall /\ gcall = NoGeoCall /\ cleanup = IdleCleanup

NextSamples ==
    \/ VehicleBegin(DetailRun)
    \/ VehicleSample(DetailRun)
    \/ VehicleScanEnd(DetailRun)

SpecSamples == InitSamples /\ [][NextSamples]_vars

-----------------------------------------------------------------------------
(* SpecRetry: one queued task of each kind, run, retried and given up, the  *)
(* image and its analyses deleted in the admin between two executions      *)

\* the delete view of SatelliteImageAdmin: the image goes, and with it
\* (on_delete = CASCADE) its analyses, their detections and their logs
DeleteImage ==
    /\ image.status # "none"
    /\ \A w \in Workers : task[w].state = "idle" /\ opt[w].pc = "idle"
    /\ image' = NoImage
    /\ analysis' = [a \in AnalysisIds |-> NoRow]
    /\ threats' = [a \in AnalysisIds |-> 0]
    /\ alog' = [a \in AnalysisIds |-> EmptyBag]
    /\ UNCHANGED <<raster, vcall, gcall, cleanup, proc, detVars, taskVars, optq, opt, cog>>

\* an image whose optimization has given up
FailedImage == [NewImage EXCEPT !.status = "failed", !.processing_error = "error"]

\* either an analysis of an optimized or of a failed image has been requested
\* and its task is queued, or an image has been uploaded and its
\* optimization is queued
InitRetry ==
    /\ raster \in {r \in OptRasters : r.count = 1}
    /\ vcall = NoCall
    /\ gcall = NoGeoCall /\ cleanup = IdleCleanup
    /\ proc = [w \in Workers |-> IdleProc]
    /\ threats = [a \in AnalysisIds |-> 0]
    /\ alog = [a \in AnalysisIds |-> EmptyBag]
    /\ det = NewDetector
    /\ pylog = {}
    /\ task = [w \in Workers |-> IdleTask]
    /\ opt = [w \in Workers |-> IdleOpt]
    /\ \/ /\ image \in {OptimizedImage, FailedImage}
          /\ \E type \in AnalysisTypes : analysis = [a \in AnalysisIds |-> NewRow(type)]
          /\ queue = AutoRunAnalysis(<<>>, 1, TRUE, "pending")
          /\ optq = <<>>
          /\ web = [NoRequests EXCEPT !.created = "admin_add", !.delays = 1]
          /\ cog = IF image.optimized_image
                   THEN [NoCog EXCEPT !.state = "complete",
                                      !.profile = CogProfile("JPEG", raster.count)]
                   ELSE NoCog
       \/ /\ image = NewImage
          /\ analysis = [a \in AnalysisIds |-> NoRow]
          /\ queue = <<>>
          /\ optq = AutoOptimize(<<>>, TRUE, "uploaded")
          /\ web = [NoRequests EXCEPT !.delays = 1]
          /\ cog = NoCog

NextRetry ==
    \/ DeleteImage
    \/ \E w \in Workers : TaskStep(w)
    \/ \E w \in Workers : TaskNotFound(w)
    \/ \E w \in Workers : ProcessStep(w)
    \/ \E w \in Workers : OptStep(w)
    \/ \E w \in Workers : OptNotFound(w)

SpecRetry == InitRetry /\ [][NextRetry]_vars

-----------------------------------------------------------------------------
(* cleanup_old_analyses, and SpecCleanup: the task runs over a table of    *)
(* records of every status and of ages around the cutoff.  Time is counted *)
(* in hours.                                                               *)

\* faulty variant: a record created exactly at the cutoff is selected too
CleanupMatches_Inclusive(row, cutoff) ==
    /\ row.exists
    /\ row.created_at <= cutoff
    /\ row.status \in {"completed", "failed"}

\* tasks.py 100-102: filter(created_at__lt=cutoff_date,
\* status__in=["completed", "failed"])
CleanupMatches(row, cutoff) ==
    /\ row.exists
    /\ row.created_at < cutoff
    /\ row.status \in {"completed", "failed"}

\* tasks.py 97-104: timezone.now(), the cutoff, the queryset and its count()
CleanupQuery ==
    /\ cleanup.pc = "idle"
    /\ \E now \in {CUTOFF_DAYS * 24 + 1, 4000} :
        LET cutoff == now - CUTOFF_DAYS * 24
        IN  cleanup' = [cleanup EXCEPT
                !.pc = "delete", !.now = now, !.cutoff = cutoff,
                !.count = Cardinality({a \in DOMAIN analysis :
                                          CleanupMatches(analysis[a], cutoff)})]
    /\ UNCHANGED <<raster, analysis, image, threats, alog, proc, det, pylog,
                   queue, task, web, optq, opt, cog, vcall, gcall>>

\* tasks.py 105-108: old_analyses.delete() removes the selected records and,
\* by cascade, their detections and logs; the success result is returned
CleanupDelete ==
    /\ cleanup.pc = "delete"
    /\ LET old == {a \in DOMAIN analysis : CleanupMatches(analysis[a], cleanup.cutoff)}
       IN  /\ analysis' = [a \in DOMAIN analysis |->
                            IF a \in old THEN NoRow ELSE analysis[a]]
           /\ threats' = [a \in DOMAIN threats |-> IF a \in old THEN 0 ELSE threats[a]]
           /\ alog' = [a \in DOMAIN alog |-> IF a \in old THEN EmptyBag ELSE alog[a]]
    /\ cleanup' = [cleanup EXCEPT !.pc = "done", !.result = "success",
                                  !.cleaned = cleanup.count]
    /\ UNCHANGED <<raster, image, proc, det, pylog,
                   queue, task, web, optq, opt, cog, vcall, gcall>>

\* a database error in count() or in delete(), which runs in a transaction
CleanupRaise ==
    /\ cleanup.pc = "delete"
    /\ cleanup' = [cleanup EXCEPT !.pc = "except", !.raised = TRUE]
    /\ UNCHANGED <<raster, analysis, image, threats, alog, proc, det, pylog,
                   queue, task, web, optq, opt, cog, vcall, gcall>>

\* tasks.py 110-112: the error is logged and the error result returned
CleanupExcept ==
    /\ cleanup.pc = "except"
    /\ cleanup' = [cleanup EXCEPT !.pc = "done", !.result = "error"]
    /\ UNCHANGED <<raster, analysis, image, threats, alog, proc, det, pylog,
                   queue, task, web, optq, opt, cog, vcall, gcall>>

\* the records of the table: none, or one of any status created in hour
\* 0, 1, 2 or 2000; a completed record has one detection
InitCleanup ==
    /\ raster \in {r \in OptRasters : r.count = 1}
    /\ vcall = NoCall
    /\ gcall = NoGeoCall /\ cleanup = IdleCleanup
    /\ image = OptimizedImage
    /\ analysis \in [1..MaxRows ->
            {NoRow} \cup
            {[NewRow("threat_detection") EXCEPT
                    !.status = st, !.created_at = c,
                    !.started_at = (st # "pending"),
                    !.completed_at = (st \in {"completed", "failed"}),
                    !.threat_count = IF st = "completed" THEN 1 ELSE 0] :
                st \in {"pending", "processing", "completed", "failed"},
                c \in {0, 1, 2, 2000}}]
    /\ threats = [a \in 1..MaxRows |-> analysis[a].threat_count]
    /\ alog = [a \in 1..MaxRows |-> EmptyBag]
    /\ proc = [w \in Workers |-> IdleProc]
    /\ det = NewDetector
    /\ pylog = {}
    /\ queue = <<>>
    /\ task = [w \in Workers |-> IdleTask]
    /\ web = NoRequests
    /\ optq = <<>>
    /\ opt = [w \in Workers |-> IdleOpt]
    /\ cog = [NoCog EXCEPT !.state = "complete",
                            !.profile = CogProfile("JPEG", raster.count)]

NextCleanup ==
    \/ CleanupQuery
    \/ CleanupDelete
    \/ CleanupRaise
    \/ CleanupExcept

SpecCleanup == InitCleanup /\ [][NextCleanup]_vars

-----------------------------------------------------------------------------
(* SpecVehicleRun: an "object_recognition" run of process() over rasters   *)
(* whose 1024-pixel grid has 0, 2, 6, 9, 10 and 15 cells                   *)

VehicleRunRasters == [width : {600, 2048, 3072, 5120}, height : {600, 1024, 2048, 3072},
                      count : {3}, crs : {"EPSG:4326"}]

InitVehicleRun ==
    /\ raster \in VehicleRunRasters
    /\ vcall = NoCall
    /\ gcall = NoGeoCall /\ cleanup = IdleCleanup
    /\ image = OptimizedImage
    /\ analysis = [a \in AnalysisIds |-> NewRow("object_recognition")]
    /\ proc = [w \in Workers |->
                IF w = DetailRun
                THEN [IdleProc EXCEPT !.pc = "start", !.aid = 1,
                                      !.inst = NewRow("object_recognition")]
                ELSE IdleProc]
    /\ threats = [a \in AnalysisIds |-> 0]
    /\ alog = [a \in AnalysisIds |-> EmptyBag]
    /\ det = NewDetector
    /\ pylog = {}
    /\ queue = <<>>
    /\ task = [w \in Workers |->
                IF w = DetailRun THEN [IdleTask EXCEPT !.state = "process", !.aid = 1]
                ELSE IdleTask]
    /\ web = [NoRequests EXCEPT !.created = "analyze", !.delays = 1]
    /\ optq = <<>>
    /\ opt = [w \in Workers |-> IdleOpt]
    /\ cog = [NoCog EXCEPT !.state = "complete",
                            !.profile = CogProfile("JPEG", raster.count)]

NextVehicleRun ==
    \/ ProcessStep(DetailRun)
    \/ VehicleBegin(DetailRun)
    \/ VehicleSample(DetailRun)
    \/ VehicleScanEnd(DetailRun)
    \/ VehicleMerge(DetailRun)
    \/ DetectorReturn(DetailRun)

SpecVehicleRun == InitVehicleRun /\ [][NextVehicleRun]_vars

-----------------------------------------------------------------------------
(* SpecValidate: _validate_coordinates on points around the bounds of the  *)
(* open raster                                                             *)

\* the raster's bounds in WGS84 (lines 110-126)
WGS84Bounds(r) ==
    IF r.crs # "EPSG:4326" THEN TransformBounds(DatasetBounds(r)) ELSE DatasetBounds(r)

\* values at and next to the ends of [lo, hi] and of the interval widened
\* by a tenth of its length, and at and next to the ends of [-limit, limit]
ProbeValues(lo, hi, limit) ==
    {lo - ((hi - lo) \div 10) - 1, lo - ((hi - lo) \div 10), lo - 1, lo,
     hi, hi + 1, hi + ((hi - lo) \div 10), hi + ((hi - lo) \div 10) + 1,
     -limit - 1, -limit, limit, limit + 1}

InitValidate ==
    /\ ScanInit(Rasters, "threat_detection")
    /\ \E lon \in ProbeValues(WGS84Bounds(raster).left, WGS84Bounds(raster).right, 180000) :
       \E lat \in ProbeValues(WGS84Bounds(raster).bottom, WGS84Bounds(raster).top, 90000) :
       \E env \in {"ok", "bounds_raise"} :
            vcall = [pc |-> "called", lon |-> lon, lat |-> lat, env |-> env,
                     result |-> FALSE]
    /\ gcall = NoGeoCall /\ cleanup = IdleCleanup

NextValidate == ValidateReturn

SpecValidate == InitValidate /\ [][NextValidate]_vars

-----------------------------------------------------------------------------
(* SpecGeo: _pixel_to_geo on pixels of the open raster *)

InitGeo ==
    /\ ScanInit(Rasters, "threat_detection")
    /\ vcall = NoCall /\ cleanup = IdleCleanup
    /\ \E x \in {0, 52, raster.width - 1} : \E y \in {0, 60, raster.height - 1} :
       \E env \in {"ok", "warp_raises"} :
            gcall = [pc |-> "called", x |-> x, y |-> y, env |-> env, result |-> <<>>]

NextGeo == PixelToGeoReturn

SpecGeo == InitGeo /\ [][NextGeo]_vars

-----------------------------------------------------------------------------
(* SpecRaster: one operation on one raster, a process() run with its      *)
(* detectors followed tile by tile or the optimization of an upload        *)

\* an uploaded image whose optimization task is waiting in the broker
InitOptRun ==
    /\ raster \in UploadRasters
    /\ vcall = NoCall
    /\ gcall = NoGeoCall /\ cleanup = IdleCleanup
    /\ image = NewImage
    /\ analysis = [a \in AnalysisIds |-> NoRow]
    /\ proc = [w \in Workers |-> IdleProc]
    /\ threats = [a \in AnalysisIds |-> 0]
    /\ alog = [a \in AnalysisIds |-> EmptyBag]
    /\ det = NewDetector
    /\ pylog = {}
    /\ queue = <<>>
    /\ task = [w \in Workers |-> IdleTask]
    /\ web = [NoRequests EXCEPT !.created = "image", !.delays = 1]
    /\ optq = AutoOptimize(<<>>, TRUE, NewImage.status)
    /\ opt = [w \in Workers |-> IdleOpt]
    /\ cog = NoCog

InitRaster == Init \/ InitOptRun

NextRaster ==
    \/ ProcessStep(DetailRun)
    \/ DetectorStep(DetailRun)
    \/ OptStep(DetailRun)

SpecRaster == InitRaster /\ [][NextRaster]_vars

-----------------------------------------------------------------------------
(* Properties of the detectors and of one process() run (Spec) *)

IsPrefix(s, t) == Len(s) <= Len(t) /\ SubSeq(t, 1, Len(s)) = s

\* the bucket size a detector derives its region keys with
Bucket(type) ==
    CASE type \in {"fire"} -> FIRE_BUCKET
      [] type \in {"damage", "structural_damage"} -> DAMAGE_BUCKET
      [] OTHER -> VEHICLE_BUCKET

\* every detection of the run so far: those handed to process() and those
\* the running detector holds
Emitted == proc[DetailRun].all_detections \o det.detections

\* C1: every detection in a detector's result list carries the location that
\* _pixel_to_geo gives for its pixel centroid (reprojected, or the raw
\* fallback), and that location passes _validate_coordinates; a candidate
\* whose point fails validation is not in the list.
C1_ValidatedLocations ==
    \A i \in DOMAIN Emitted :
        LET d == Emitted[i]
        IN  /\ \E warpFails \in BOOLEAN :
                 <<d.lon, d.lat>> = PixelToGeo(raster, d.x, d.y, warpFails)
            /\ ValidateCoordinates(raster, d.lon, d.lat, FALSE)

\* a fire scan that has emitted a detection and dropped an invalid candidate
C1_Witness ==
    /\ det.name = "fire"
    /\ det.detections # <<>>
    /\ \E e \in pylog : e.what = "fire_invalid"

OnePerBucket ==
    \A i, j \in DOMAIN Emitted :
        (i # j /\ Emitted[i].threat_type = Emitted[j].threat_type)
        => RegionKey(Emitted[i].x, Emitted[i].y, Bucket(Emitted[i].threat_type))
            # RegionKey(Emitted[j].x, Emitted[j].y, Bucket(Emitted[j].threat_type))

\* C2: within one run of a detector no two emitted detections have pixel
\* centroids in the same DedupKey bucket, and a detection once emitted stays in
\* the list unchanged (a later candidate in its bucket neither replaces nor
\* merges with it).
C2_OnePerBucket ==
    /\ []OnePerBucket
    /\ [][det'.name = det.name /\ det'.pc # "done"
            => IsPrefix(det.detections, det'.detections)]_vars

\* a detector call that dropped a candidate in the bucket of a detection it
\* had emitted itself
C2_Witness ==
    \E p \in det.dropped : \E i \in DOMAIN det.detections :
        RegionKey(p[1], p[2], Bucket(det.name))
            = RegionKey(det.detections[i].x, det.detections[i].y, Bucket(det.name))

\* C3: a damage or vehicle candidate is dropped as a duplicate only if the
\* same detector already recorded its 500-px bucket (so the bucket holds a
\* detection of that detector); keys of other detectors never suppress it.
C3_OwnKeysOnly ==
    det.name \in {"damage", "vehicle"} =>
        \A p \in det.dropped : \E i \in DOMAIN det.detections :
            RegionKey(p[1], p[2], Bucket(det.name))
                = RegionKey(det.detections[i].x, det.detections[i].y, Bucket(det.name))

ReadRaises == {"read1_raises", "read2_raises", "read3_raises"}

\* C4: when a band read of a fire tile raises, a warning is logged and the
\* scan goes on: the call is still scanning (or has read every tile), and the
\* detections collected so far are kept.
C4_ReadErrorSkipsTile ==
    (det.name = "fire" /\ det.last \in ReadRaises /\ det.pc \in {"scan", "end"})
    => /\ \E e \in pylog : e.what = "fire_window" /\ e.level = "warning"
       /\ det.pc = "end" => Len(det.visited) = Len(FireTiles(raster))

PhaseRank(pc) ==
    CASE pc = "idle" -> 0
      [] pc = "scan" -> 1
      [] pc \in {"cluster", "end"} -> 2
      [] pc = "done" -> 3
      [] OTHER -> 4

\* the tile origins of the current call are in strictly increasing row-major order
VisitedInOrder ==
    \A i, j \in DOMAIN det.visited :
        i < j => \/ det.visited[i][2] < det.visited[j][2]
                 \/ (det.visited[i][2] = det.visited[j][2]
                     /\ det.visited[i][1] < det.visited[j][1])

\* a step of one detector call never goes back to an earlier phase, and
\* while scanning the tile index only grows
ForwardStep ==
    \/ det.pc \in {"idle", "done"}
    \/ /\ PhaseRank(det'.pc) >= PhaseRank(det.pc)
       /\ det'.name = det.name
       /\ (det.pc = "scan" /\ det'.pc = "scan") => det'.tile > det.tile

\* C9: a detector call moves only forward through Idle, Scanning(tile),
\* Merging, Done, visits its tile origins in strictly increasing row-major
\* order without repeating one, and whatever exceptions its tiles raise it
\* returns its list instead of raising to its caller.
C9_ForwardOnly ==
    /\ [](VisitedInOrder /\ det.pc # "raised")
    /\ [][ForwardStep]_vars

\* a fire call that got past a failed tile, then lost a tile to a read
\* error, and is at its return statement
C9_Witness ==
    /\ det.name = "fire" /\ det.pc = "end"
    /\ Len(det.visited) >= 2
    /\ det.last \in ReadRaises

DetectorPcs == {"fire", "log_damage", "damage", "log_vehicle", "vehicle"}

\* C10: in a threat_detection run a failure inside a detector does not stop
\* the later detectors from being called (all three have been called once the
\* with-block is left), never removes detections already gathered, and never
\* sends the run to its failure handler (only an exception of a database
\* write does).
C10_SiblingsSurvive ==
    /\ []((proc[DetailRun].inst.type = "threat_detection"
            /\ proc[DetailRun].pc \in {"close", "store", "complete"})
          => [i \in DOMAIN proc[DetailRun].calls |-> proc[DetailRun].calls[i].name]
                = <<"fire", "damage", "vehicle">>)
    /\ [][/\ proc[DetailRun].pc # "start"
             => IsPrefix(proc[DetailRun].all_detections, proc'[DetailRun].all_detections)
          /\ (proc[DetailRun].pc \in DetectorPcs /\ web'.faults = web.faults)
                => proc'[DetailRun].pc # "except"]_vars

\* a completed threat_detection run whose fire detector failed, with
\* detections from the detectors after it
C10_Witness ==
    /\ analysis[1].status = "completed"
    /\ Len(proc[DetailRun].calls) = 3
    /\ proc[DetailRun].calls[1].failures
    /\ proc[DetailRun].all_detections # <<>>

-----------------------------------------------------------------------------
(* Properties of the analysis task and its requests (SpecTask) *)

\* no execution of run_satellite_analysis is running or waiting
TasksFinished ==
    /\ queue = <<>>
    /\ \A w \in Workers : task[w].state = "idle"

\* C5: once the executions of run_satellite_analysis for a record (retries
\* included) are over, the record is "completed" or "failed", and a failed
\* record has its error_message and completed_at; it is not left "pending"
\* or "processing".
C5_TerminalStatus ==
    \A a \in AnalysisIds :
        (TasksFinished /\ web.outcomes \cap {"success", "gave_up"} # {})
        => /\ analysis[a].status \in {"completed", "failed"}
           /\ analysis[a].status = "failed"
                => analysis[a].error_message # "" /\ analysis[a].completed_at

\* the workers that are executing run_satellite_analysis for record a
Running(a) == {w \in Workers : task[w].state # "idle" /\ task[w].aid = a}

\* C7: a record created through the analyze endpoint or an admin analysis
\* action gets exactly one run_satellite_analysis task, and no two
\* executions for the same record are in progress at once.
C7_OneTaskPerAnalysis ==
    \A a \in AnalysisIds :
        /\ web.created \in {"analyze", "admin_action"} => web.delays = 1
        /\ Cardinality(Running(a)) <= 1

-----------------------------------------------------------------------------
(* Properties of the optimization task (SpecOpt) *)

\* C6: the persisted image has status "optimized" and an optimized_image
\* reference only when the COG file is complete, and when
\* optimize_satellite_image_file has failed the persisted image has neither
\* status "optimized" nor an optimized_image reference.
C6_NoPartialAsComplete ==
    /\ (image.status = "optimized" /\ image.optimized_image) => cog.state = "complete"
    /\ \A w \in Workers :
        opt[w].pc = "returned_false"
        => ~image.optimized_image /\ image.status # "optimized"

\* C8: at no time are two optimize_satellite_image executions in progress
\* for the image.
C8_OneOptimization ==
    Cardinality({w \in Workers : opt[w].pc # "idle"}) <= 1

-----------------------------------------------------------------------------
(* Properties of the dispatch on the analysis type (Spec) *)

\* the detectors process() has called in this run, in call order
CallNames == [i \in DOMAIN proc[DetailRun].calls |-> proc[DetailRun].calls[i].name]

\* the detectors an analysis type stands for
ExpectedCalls(type) ==
    CASE type = "threat_detection" -> <<"fire", "damage", "vehicle">>
      [] type = "object_recognition" -> <<"vehicle">>
      [] OTHER -> <<>>

AfterWith == {"close", "store", "complete", "image", "logdone", "returned_true"}

\* C11: for threat_detection process() calls the fire, the damage and the
\* vehicle detector, each once and in that order, for object_recognition the
\* vehicle detector once; each returned list is appended to all_detections,
\* so the aggregate is the concatenation of the results in call order.
C11_DetectorOrder ==
    /\ [](/\ IsPrefix(CallNames, ExpectedCalls(proc[DetailRun].inst.type))
          /\ proc[DetailRun].pc \in AfterWith
                => CallNames = ExpectedCalls(proc[DetailRun].inst.type))
    /\ [][proc'[DetailRun].calls # proc[DetailRun].calls /\ proc[DetailRun].pc # "start"
            => /\ proc'[DetailRun].calls
                    = Append(proc[DetailRun].calls,
                             [name |-> det.name,
                              failures |-> proc'[DetailRun].calls[Len(proc'[DetailRun].calls)].failures])
               /\ proc'[DetailRun].all_detections
                    = proc[DetailRun].all_detections \o det.detections]_vars

\* a finished threat_detection run whose aggregate holds a fire detection
\* followed by a detection of a later detector
C11_Witness ==
    /\ proc[DetailRun].pc = "returned_true"
    /\ proc[DetailRun].inst.type = "threat_detection"
    /\ Len(proc[DetailRun].all_detections) >= 2
    /\ proc[DetailRun].all_detections[1].threat_type = "fire"
    /\ proc[DetailRun].all_detections[2].threat_type # "fire"

UnknownType == proc[DetailRun].inst.type \notin {"threat_detection", "object_recognition"}

\* the number of AnalysisLog rows of the analysis with the given level
LogCount(a, level) ==
    LET rows == {r \in BagToSet(alog[a]) : r.level = level}
        RECURSIVE Total(_)
        Total(S) == IF S = {} THEN 0
                    ELSE LET r == CHOOSE x \in S : TRUE
                         IN  CopiesIn(r, alog[a]) + Total(S \ {r})
    IN  Total(rows)

\* C12: for an analysis type other than threat_detection and
\* object_recognition, process() calls no detector and, unless the database
\* or the raster raises, never enters its failure handler; it ends
\* "completed" with one warning log entry, no detections, threat_count 0 and
\* confidence_score 0.
C12_UnknownTypeCompletes ==
    UnknownType =>
        /\ proc[DetailRun].calls = <<>>
        /\ web.faults = 0 => proc[DetailRun].pc \notin {"except", "returned_false"}
        /\ proc[DetailRun].pc = "returned_true"
            => /\ analysis[1].status = "completed"
               /\ analysis[1].threat_count = 0
               /\ analysis[1].confidence_score = 0
               /\ threats[1] = 0
               /\ proc[DetailRun].all_detections = <<>>
               /\ LogCount(1, "warning") = 1

\* a finished terrain_analysis run
C12_Witness ==
    /\ proc[DetailRun].inst.type = "terrain_analysis"
    /\ proc[DetailRun].pc = "returned_true"
    /\ web.faults = 0

-----------------------------------------------------------------------------
(* Properties of the raster handles (SpecRaster) *)

\* the detector call in progress is reading the raster
DetectorReading == det.pc \in {"scan", "cluster"}

\* the optimization is between the input's open and the end of its with-block
OptimizerReading(w) == opt[w].pc \in {"cog_open", "cog_write", "thumb", "overlay"}

\* C13: once process() or optimize_satellite_image_file has left its
\* with-block (normally, by an exception, or after tile read errors) the
\* raster it opened is closed, it stays closed until the operation has
\* returned, and a raster is only read while it is open.
C13_HandleClosed ==
    /\ proc[DetailRun].pc \in (AfterWith \ {"close"}) \cup {"except", "returned_false"}
        => ~proc[DetailRun].open
    /\ opt[DetailRun].pc \in {"final", "except", "returned_true", "returned_false", "idle"}
        => ~opt[DetailRun].src_open
    /\ (DetectorReading /\ proc[DetailRun].pc \in {"fire", "damage", "vehicle"})
        => proc[DetailRun].open
    /\ OptimizerReading(DetailRun) => opt[DetailRun].src_open

\* a process() run that returned False after a fire tile failed to read and
\* a later statement inside the with-block raised
C13_Witness ==
    /\ proc[DetailRun].pc = "returned_false"
    /\ Len(proc[DetailRun].calls) >= 1
    /\ proc[DetailRun].calls[1].failures
    /\ ~proc[DetailRun].open

-----------------------------------------------------------------------------
(* Properties of create_cog (SpecOpt) *)

\* C14: the output profile of create_cog carries JPEG (and the YCbCr colour
\* transform) only when the source raster has exactly 3 bands, and a raster
\* with 1 or 2 bands gets DEFLATE instead.
C14_JpegOnlyThreeBands ==
    cog.profile # <<>> =>
        /\ (cog.profile.compress = "JPEG" \/ cog.profile.photometric = "YCbCr")
            => raster.count = 3
        /\ raster.count \in {1, 2} => cog.profile.compress = "DEFLATE"

-----------------------------------------------------------------------------
(* Properties of the fire detector's windows *)

Max(a, b) == IF a > b THEN a ELSE b

\* the windows the running fire detector has read so far
FireWindowsRead == {FireWindow(raster, det.visited[i]) : i \in DOMAIN det.visited}

\* the nominal tile at (x, y) extended by the overlap on all four sides and
\* clipped to the raster
ExtendedTile(r, x, y) ==
    LET x0 == Max(x - OVERLAP, 0)
        y0 == Max(y - OVERLAP, 0)
    IN  [x |-> x0, y |-> y0,
         w |-> Min(x + CHUNK_SIZE + OVERLAP, r.width) - x0,
         h |-> Min(y + CHUNK_SIZE + OVERLAP, r.height) - y0]

\* C15: every window read by detect_fires_explosions is its nominal tile
\* extended by the overlap to the left, right, top and bottom, clipped to the
\* raster.
C15_OverlapAllSides ==
    det.name = "fire" =>
        \A i \in DOMAIN det.visited :
            FireWindow(raster, det.visited[i])
                = ExtendedTile(raster, det.visited[i][1], det.visited[i][2])

\* the pixels that decide whether windows cover a raster: if a pixel is
\* uncovered, then so is one whose x is 0 or the right edge of a window and
\* whose y is 0 or the bottom edge of a window
CornerXs(wins, r) == {x \in {0} \cup {win.x + win.w : win \in wins} : x < r.width}

CornerYs(wins, r) == {y \in {0} \cup {win.y + win.h : win \in wins} : y < r.height}

Inside(win, x, y) ==
    win.x <= x /\ x < win.x + win.w /\ win.y <= y /\ y < win.y + win.h

Covered(wins, r) ==
    \A x \in CornerXs(wins, r) : \A y \in CornerYs(wins, r) :
        \E win \in wins : Inside(win, x, y)

-----------------------------------------------------------------------------
(* Properties of create_cog (SpecRaster) *)

\* the writes made so far by the create_cog call of worker w
CogWritten(w) == [k \in 1..opt[w].progress |-> CogWriteAt(raster, k)]

Disjoint(a, b) ==
    \/ a.x + a.w <= b.x \/ b.x + b.w <= a.x
    \/ a.y + a.h <= b.y \/ b.y + b.h <= a.y

BandWindows(w, b) == {wr.win : wr \in {e \in Range(CogWritten(w)) : e.band = b}}

\* every band of the raster has been written over its whole extent
AllCopied(w) ==
    /\ opt[w].progress = CogWrites(raster)
    /\ \A b \in 1..raster.count : Covered(BandWindows(w, b), raster)

CogPcs == {"cog_open", "cog_write"}

\* C17: create_cog writes windows of at most 1024 x 1024 pixels that lie
\* inside the raster and, within a band, never overlap; when it has returned
\* True the windows of every band cover the raster, so each pixel of each band
\* was copied exactly once; the step that builds the overviews is taken only
\* when every window of every band has been written; and create_cog is left
\* either through that step or, on an exception, with the result False.
C17_CogCopy ==
    /\ [](\A w \in Workers :
            /\ opt[w].pc = "cog_write" =>
                /\ \A k \in 1..opt[w].progress :
                    LET wr == CogWritten(w)[k]
                    IN  /\ wr.band \in 1..raster.count
                        /\ wr.win.w \in 1..COG_WINDOW /\ wr.win.h \in 1..COG_WINDOW
                        /\ wr.win.x >= 0 /\ wr.win.y >= 0
                        /\ wr.win.x + wr.win.w <= raster.width
                        /\ wr.win.y + wr.win.h <= raster.height
                /\ \A j, k \in 1..opt[w].progress :
                    (j # k /\ CogWritten(w)[j].band = CogWritten(w)[k].band)
                        => Disjoint(CogWritten(w)[j].win, CogWritten(w)[k].win)
            /\ opt[w].pc \in {"thumb", "overlay", "final", "returned_true"} => AllCopied(w))
    /\ [][\A w \in Workers :
            (opt[w].pc \in CogPcs /\ opt'[w].pc \notin CogPcs) =>
                \/ opt'[w].pc = "thumb" /\ AllCopied(w)
                     /\ opt'[w].inst.optimized_image
                \/ opt'[w].pc = "except" /\ opt'[w].inst.optimized_image = FALSE]_vars

\* create_cog has returned True for a three-band raster of 2 x 3 windows
C17_Witness ==
    /\ opt[DetailRun].pc = "thumb"
    /\ raster.width = 1025 /\ raster.height = 2049 /\ raster.count = 3
    /\ opt[DetailRun].progress = 18

-----------------------------------------------------------------------------
(* Properties of the vehicle detector's sampling (SpecSamples) *)

\* C18: in a run of detect_vehicle_concentrations the number of sample
\* windows visited, the all-zero and the failed ones included, never exceeds
\* min(4, floor(floor(height / 1024) * floor(width / 1024) / 10)), and every
\* visited window is a 512 x 512 block that lies inside the raster.
C18_SampleCap ==
    det.name = "vehicle" =>
        /\ Len(det.visited)
             <= Min(4, ((raster.height \div 1024) * (raster.width \div 1024)) \div 10)
        /\ \A i \in DOMAIN det.visited :
            /\ det.visited[i][1] >= 0 /\ det.visited[i][2] >= 0
            /\ det.visited[i][1] + 512 <= raster.width
            /\ det.visited[i][2] + 512 <= raster.height

\* the cap of four samples is reached and the last window was skipped or failed
C18_Witness ==
    /\ det.name = "vehicle" /\ det.pc = "cluster"
    /\ Len(det.visited) = 4
    /\ det.last \in {"all_zero", "read_raises", "blob_raises"}

-----------------------------------------------------------------------------
(* Properties of the vehicle detector's clustering (Spec) *)

Centroid(pts, idx) ==
    <<SumCoord(pts, idx, 1) \div Cardinality(idx), SumCoord(pts, idx, 2) \div Cardinality(idx)>>

\* the detections made for the cluster idx of the keypoints pts
ConvoysOf(pts, idx) ==
    {i \in DOMAIN det.detections :
        /\ det.detections[i].threat_type = "vehicle_convoy"
        /\ <<det.detections[i].x, det.detections[i].y>> = Centroid(pts, idx)
        /\ det.detections[i].size = Cardinality(idx)}

\* no centroid was rejected and the clustering did not fail
CleanClustering ==
    \A e \in pylog : e.what \notin {"vehicle_invalid", "vehicle_cluster"}

\* C19: when detect_vehicle_concentrations has finished, every cluster of the
\* collected blob centres with at least 5 members, whose centroid validates
\* and whose bucket was not recorded before, has exactly one vehicle_convoy
\* detection with vehicle_count equal to its size, also when only 5 blob
\* centres were collected; and no detection has a vehicle_count below 5.
C19_ClustersEmitted ==
    (det.name = "vehicle" /\ det.pc = "end") =>
        /\ CleanClustering =>
            \A idx \in Clusters(det.keypoints) :
                (Cardinality(idx) >= 5 /\ Centroid(det.keypoints, idx) \notin det.dropped)
                    => Cardinality(ConvoysOf(det.keypoints, idx)) = 1
        /\ \A i \in DOMAIN det.detections : det.detections[i].size >= 5

-----------------------------------------------------------------------------
(* Properties of _validate_coordinates (SpecValidate); coordinates are in  *)
(* thousandths of a degree                                                 *)

InGeographicRange(lon, lat) ==
    -180000 <= lon /\ lon <= 180000 /\ -90000 <= lat /\ lat <= 90000

\* v lies in [lo, hi] widened at both ends by 10% of hi - lo
InWidened(v, lo, hi) ==
    10 * v >= 10 * lo - (hi - lo) /\ 10 * v <= 10 * hi + (hi - lo)

\* C20: _validate_coordinates(lon, lat) returns True exactly when
\* -180 <= lon <= 180, -90 <= lat <= 90 and the point lies, ends included,
\* in the raster's WGS84 bounding box widened on each side by 10% of its span
\* in that axis; it returns False for every other point and whenever the
\* bounds cannot be computed; the call always returns.
C20_ValidateExact ==
    /\ vcall.pc = "returned" =>
        vcall.result =
            (/\ InGeographicRange(vcall.lon, vcall.lat)
             /\ vcall.env # "bounds_raise"
             /\ InWidened(vcall.lon, WGS84Bounds(raster).left, WGS84Bounds(raster).right)
             /\ InWidened(vcall.lat, WGS84Bounds(raster).bottom, WGS84Bounds(raster).top))
    /\ vcall.pc = "called" => ENABLED ValidateReturn

\* a point outside the bounding box but inside its margin was accepted
C20_Witness ==
    /\ vcall.pc = "returned" /\ vcall.result
    /\ vcall.lon < WGS84Bounds(raster).left
    /\ vcall.lat > WGS84Bounds(raster).top

-----------------------------------------------------------------------------
(* Properties of _pixel_to_geo (SpecGeo) *)

\* the reprojection was attempted and raised
FellBack == raster.crs # "EPSG:4326" /\ gcall.env = "warp_raises"

\* C21: when the reprojection to WGS84 fails inside _pixel_to_geo the call
\* returns the raw affine-transformed coordinate, and the returned value
\* carries a mark that tells it apart from a reprojected point.
C21_FallbackFlagged ==
    /\ gcall.pc = "called" => ENABLED PixelToGeoReturn
    /\ (gcall.pc = "returned" /\ FellBack) =>
        /\ <<gcall.result[1], gcall.result[2]>> = AffineTransform(raster, gcall.x, gcall.y)
        /\ Len(gcall.result) > 2
        /\ gcall.result[3] = "degraded"

-----------------------------------------------------------------------------
(* Properties of the previews (SpecRaster) *)

\* C22: a preview that could not be built is returned as None: the step of
\* create_thumbnail or create_map_overlay_png never moves the optimization
\* to its exception handler, and an optimization with a missing preview that
\* returns True has saved the image with status "optimized"; only executions
\* whose create_cog succeeded get that far.
C22_PreviewNotFatal ==
    /\ [](\A w \in Workers :
            (opt[w].pc = "returned_true" /\ "none" \in Range(opt[w].previews)) =>
                /\ opt[w].inst.status = "optimized"
                /\ opt[w].inst.optimized_image
                /\ Len(opt[w].previews) = 2)
    /\ [][\A w \in Workers :
            /\ Len(opt'[w].previews) > Len(opt[w].previews)
                => opt'[w].pc \in {"overlay", "final"}
            /\ (opt[w].pc = "final" /\ opt'[w].pc = "returned_true")
                => image'.status = "optimized"]_vars

\* an optimization without thumbnail and without overlay has returned True
C22_Witness ==
    /\ opt[DetailRun].pc = "returned_true"
    /\ opt[DetailRun].previews = <<"none", "none">>
    /\ image.status = "optimized"
    /\ ~image.thumbnail /\ ~image.map_overlay

-----------------------------------------------------------------------------
(* Properties of the analysis log of one process() run (Spec) *)

EntryCount(a, level, msg) == CopiesIn([level |-> level, message |-> msg], alog[a])

Started(a) == EntryCount(a, "info", "Analysis started")

Completed(a) == EntryCount(a, "info", "Analysis completed successfully")

Failed(a) == EntryCount(a, "error", "Analysis failed")

\* the detector that is being invoked at pc was announced by one info entry
Announced(pc) ==
    CASE pc = "fire" -> EntryCount(1, "info", LogMessage("log_fire")) = 1
      [] pc = "damage" -> EntryCount(1, "info", LogMessage("log_damage")) = 1
      [] pc = "vehicle" -> EntryCount(1, "info", LogMessage("log_vehicle")) = 1
      [] OTHER -> TRUE

\* C23: a call of process() appends "Analysis started" first, one info entry
\* before each detector invocation, and last exactly one terminal entry: the
\* completion entry when it returns True, the failure entry when it returns
\* False, never both and never neither; and it only ever appends to the log.
C23_LogOrder ==
    /\ [](/\ alog[1] # EmptyBag => Started(1) = 1
          /\ Announced(proc[DetailRun].pc)
          /\ proc[DetailRun].pc = "returned_true" => Completed(1) = 1 /\ Failed(1) = 0
          /\ proc[DetailRun].pc = "returned_false" => Completed(1) = 0 /\ Failed(1) = 1
          /\ proc[DetailRun].pc \notin {"returned_true", "returned_false"}
                => Completed(1) = 0 /\ Failed(1) = 0)
    /\ [][\A e \in BagToSet(alog[1]) : CopiesIn(e, alog'[1]) >= CopiesIn(e, alog[1])]_vars

-----------------------------------------------------------------------------
(* Properties of the stored results (SpecTask) *)

\* C24: once the executions of run_satellite_analysis are over, a record
\* with status "completed" has as many ThreatDetection rows as its
\* threat_count (the length of the detection list that the same save wrote
\* to raw_data), also after a retry that follows an attempt which failed
\* after bulk_create and after a second task for the same record.
C24_RowsMatchCount ==
    \A a \in AnalysisIds :
        (TasksFinished /\ analysis[a].status = "completed")
            => threats[a] = analysis[a].threat_count


\* the status changes a record may go through
StatusMoves ==
    {<<"pending", "processing">>, <<"processing", "completed">>, <<"processing", "failed">>}

\* C25: the persisted status of an AnalysisResult only moves from pending to
\* processing and from processing to completed or failed; once completed or
\* failed is saved, no later step of the run and no retry changes it.
C25_TerminalAbsorbing ==
    [][\A a \in AnalysisIds :
        analysis'[a].status # analysis[a].status
            => (analysis[a].exists
                    => <<analysis[a].status, analysis'[a].status>> \in StatusMoves)]_vars

-----------------------------------------------------------------------------
(* Properties of the image's analysis flags (Spec: one run on an image that *)
(* has not been analysed before)                                           *)

\* C26: when the run has finished, the persisted analysis_count of the image
\* is the number of runs that ended "completed" and analyzed is TRUE iff
\* that number is at least 1: a completed run leaves 1 and TRUE, a failed run
\* leaves analysis_count and analyzed as they were, 0 and FALSE.
C26_CountMatchesRuns ==
    LET ended == analysis[1].status
        done == proc[DetailRun].pc \in {"returned_true", "returned_false"}
    IN  /\ (done /\ ended = "completed") => image.analysis_count = 1 /\ image.analyzed
        /\ (done /\ ended = "failed") => image.analysis_count = 0 /\ ~image.analyzed

-----------------------------------------------------------------------------
(* Properties of the seen-set (Spec) *)

KeyOf(d) == RegionKey(d.x, d.y, Bucket(d.threat_type))

EmittedKeys == {KeyOf(Emitted[i]) : i \in DOMAIN Emitted}

NoCaughtException ==
    /\ \A i \in DOMAIN proc[DetailRun].calls : ~proc[DetailRun].calls[i].failures
    /\ \A e \in pylog : e.what \notin FailureEvents

-----------------------------------------------------------------------------
(* Properties of the vehicle detector on small rasters (SpecVehicleRun) *)

SmallGrid == (raster.height \div 1024) * (raster.width \div 1024) < 10

\* C28: on a raster with floor(height / 1024) * floor(width / 1024) < 10
\* detect_vehicle_concentrations reads no window, collects no keypoint and
\* returns an empty list, so an "object_recognition" run on it holds no
\* detection at any point, stores no threat, and when process() returns True
\* the record is "completed" with threat_count 0; the run returns False only
\* after a database operation of process() raised.
C28_SmallRasterEmpty ==
    SmallGrid =>
        /\ det.visited = <<>> /\ det.keypoints = <<>> /\ det.detections = <<>>
        /\ proc[DetailRun].all_detections = <<>>
        /\ threats[1] = 0
        /\ proc[DetailRun].pc = "returned_true" =>
            analysis[1].status = "completed" /\ analysis[1].threat_count = 0
        /\ proc[DetailRun].pc \in {"except", "returned_false"} => web.faults > 0

\* a run on a 3072 x 3072 raster (9 grid cells) whose detector call has
\* returned and which has completed
C28_Witness ==
    /\ raster.width = 3072 /\ raster.height = 3072
    /\ det.name = "vehicle" /\ det.pc = "done"
    /\ proc[DetailRun].pc = "returned_true"
    /\ analysis[1].status = "completed"

-----------------------------------------------------------------------------
(* Properties of the retries of the two tasks (SpecRetry) *)

\* the execution of run_satellite_analysis on worker w ends in this step
AnalysisEnds(w) == task[w].state # "idle" /\ task'[w].state = "idle"

\* the execution of optimize_satellite_image on worker w ends in this step
OptimizeEnds(w) == opt[w].pc # "idle" /\ opt'[w].pc = "idle"

\* C29: a task counts its re-runs in request.retries; no message and no
\* execution of run_satellite_analysis ever carries more than 2 and none of
\* optimize_satellite_image more than 3.  An execution that ends after its
\* record was not found, or after its operation returned success, leaves the
\* queue as it is; a failing execution sends exactly one message with the
\* count raised by one while the count is below the limit, and none once
\* the limit is reached.
C29_RetryLimits ==
    [][/\ \A i \in DOMAIN queue' : queue'[i].retries <= 2
       /\ \A i \in DOMAIN optq' : optq'[i].retries <= 3
       /\ \A w \in Workers :
            /\ task'[w].retries <= 2
            /\ opt'[w].retries <= 3
            /\ AnalysisEnds(w) =>
                IF \/ task[w].state = "not_found"
                   \/ task[w].state = "process" /\ proc[w].pc = "returned_true"
                THEN queue' = queue
                ELSE IF task[w].retries < 2
                THEN queue' = Append(queue, [aid |-> task[w].aid,
                                             retries |-> task[w].retries + 1])
                ELSE queue' = queue
            /\ OptimizeEnds(w) =>
                IF opt[w].pc \in {"not_found", "returned_true"}
                THEN optq' = optq
                ELSE IF opt[w].retries < 3
                THEN optq' = Append(optq, [retries |-> opt[w].retries + 1])
                ELSE optq' = optq]_vars

\* the analysis of an image without an optimized file has failed three
\* times: the second re-run is about to fail and nothing is queued
C29_Witness ==
    /\ \E w \in Workers : task[w].state = "error" /\ task[w].retries = 2
    /\ queue = <<>>
    /\ "retry" \in web.outcomes

-----------------------------------------------------------------------------
(* Properties of cleanup_old_analyses (SpecCleanup) *)

\* the records of the table that exist
Rows == {a \in DOMAIN analysis : analysis[a].exists}

\* C30: a record that cleanup_old_analyses removes was created more than 90
\* days (2160 hours) before the task read the clock and its status is
\* "completed" or "failed": no "pending" or "processing" record and no record
\* of 90 days or less goes.  The task ends with a result in every run: the
\* error result when a database operation raised, and then nothing was
\* deleted, the success result otherwise.
C30_CleanupOnlyOld ==
    [][/\ \A a \in Rows \ Rows' :
            /\ analysis[a].status \in {"completed", "failed"}
            /\ cleanup.now - analysis[a].created_at > 90 * 24
       /\ cleanup'.pc = "done" =>
            cleanup'.result = IF cleanup'.raised THEN "error" ELSE "success"
       /\ cleanup'.raised => Rows' = Rows]_vars

\* a run one hour past the 90 days of the oldest records has removed the
\* first record and kept the second, which is as old but still processing
C30_Witness ==
    /\ cleanup.pc = "done" /\ cleanup.result = "success"
    /\ cleanup.now = 2161 /\ cleanup.cleaned = 1
    /\ 1 \notin Rows
    /\ 2 \in Rows /\ analysis[2].status = "processing" /\ analysis[2].created_at = 0

====
